---------------------------- MODULE Spec2Model ----------------------------
(***************************************************************************)
(* State-machine model of the ezio disk I/O engine (raw_disk_io), its      *)
(* buffer pool (buffer_pool) and its block cache (unified_cache /          *)
(* cache_partition).                                                       *)
(*                                                                         *)
(* Lengths and offsets are counted in units of 8 KiB, so that one block    *)
(* (DEFAULT_BLOCK_SIZE, 16 KiB) is two units and a request can start in    *)
(* the middle of a block and cross the block boundary.                     *)
(***************************************************************************)
EXTENDS Integers, Sequences, FiniteSets, TLC

(***************************************************************************)
(* Bounds of the model.                                                    *)
(***************************************************************************)
\* number of async_* calls the caller makes in one behaviour
MaxOps == 3
\* piece_size(piece) of the single piece of the torrent, in units
PieceUnits == 3
\* settings_pack::aio_threads: threads of read_thread_pool_ / write_thread_pool_
AioThreads == 2
\* settings_pack::hashing_threads: threads of hash_thread_pool_
HashingThreads == 1
\* m_max_entries of every cache partition (cache_size / 16 KiB / NUM_PARTITIONS)
PartitionEntries == 1
\* watermark callbacks posted to m_ios and not yet run, in SpecPool
MaxPending == 2
MaxDrift == 1

(***************************************************************************)
(* Program constants (in model units).                                     *)
(***************************************************************************)
\* 16 KiB, in units of 8 KiB
DEFAULT_BLOCK_SIZE == 2
\* MAX_BUFFER_POOL_SIZE / DEFAULT_BLOCK_SIZE, scaled down from 8192 buffers to
\* the smallest m_max_use that set_settings accepts
BUFFER_COUNT == 16
LOW_WATERMARK == BUFFER_COUNT \div 2
HIGH_WATERMARK == (BUFFER_COUNT \div 8) * 7
\* scaled down from 32: the two block locations of the model fall into one
\* partition or into two
NUM_PARTITIONS == 2

Min(a, b) == IF a < b THEN a ELSE b

\* bytes never written by the program: fresh malloc memory
Junk == -1
\* content of the device before the first write
Blank == 0

NoObserver == "none"
Observers == {"o1"}

VARIABLES
    m_buffer_pool,   \* buffer_pool: m_size, m_exceeded_max_size, m_observers, limits
    m_cache,         \* unified_cache::m_partitions
    partition_of,    \* the value of get_partition_index for every block location
    device,          \* bytes of the target partition, by unit offset
    parse_ok,        \* whether the layout's file name parses as hex
    storages_,       \* slot ids of the registered partition_storage objects
    free_slots_,     \* slot ids released by remove_torrent
    jobs,            \* every async_* call made so far, with the position of its task
    ioc_,            \* tasks posted to the callback executor, oldest first
    held,            \* pool buffers owned by the caller (disk_buffer_holder of reads)
    waiting,         \* observers told to wait by async_write returning true
    last,            \* the most recent handler / observer invocation or API return
    threads          \* per thread: the cache or pool call it is inside, and the mutexes it holds

vars == <<m_buffer_pool, m_cache, partition_of, device, parse_ok, storages_,
          free_slots_, jobs, ioc_,
          held, waiting, last, threads>>

(***************************************************************************)
(* buffer_pool                                                             *)
(***************************************************************************)
buffer_pool ==
    [m_size |-> 0, m_max_use |-> BUFFER_COUNT, m_low_watermark |-> LOW_WATERMARK,
     m_high_watermark |-> HIGH_WATERMARK, m_exceeded_max_size |-> FALSE,
     m_observers |-> <<>>]

\* allocate_buffer_impl latching at the high watermark instead of above it
allocate_buffer_impl_early(pool, malloc_ok) ==
    IF pool.m_size >= pool.m_max_use
    THEN [pool |-> [pool EXCEPT !.m_exceeded_max_size = TRUE], buf |-> FALSE]
    ELSE LET p1 == IF pool.m_size >= pool.m_high_watermark
                   THEN [pool EXCEPT !.m_exceeded_max_size = TRUE]
                   ELSE pool
         IN IF ~malloc_ok
            THEN [pool |-> [p1 EXCEPT !.m_exceeded_max_size = TRUE], buf |-> FALSE]
            ELSE [pool |-> [p1 EXCEPT !.m_size = @ + 1], buf |-> TRUE]

\* malloc_ok: the outcome of malloc(DEFAULT_BLOCK_SIZE)
allocate_buffer_impl(pool, malloc_ok) ==
    IF pool.m_size >= pool.m_max_use
    THEN [pool |-> [pool EXCEPT !.m_exceeded_max_size = TRUE], buf |-> FALSE]
    ELSE LET p1 == IF pool.m_size > pool.m_high_watermark
                   THEN [pool EXCEPT !.m_exceeded_max_size = TRUE]
                   ELSE pool
         IN IF ~malloc_ok
            THEN [pool |-> [p1 EXCEPT !.m_exceeded_max_size = TRUE], buf |-> FALSE]
            ELSE [pool |-> [p1 EXCEPT !.m_size = @ + 1], buf |-> TRUE]

allocate_buffer(pool, malloc_ok) == allocate_buffer_impl(pool, malloc_ok)

\* allocate_buffer(exceeded, o) reporting the state latched before the call
allocate_buffer_observer_stale(pool, o, malloc_ok) ==
    LET r == allocate_buffer_impl(pool, malloc_ok)
        exceeded == pool.m_exceeded_max_size
    IN [pool |-> IF exceeded /\ o # NoObserver
                 THEN [r.pool EXCEPT !.m_observers = Append(@, o)]
                 ELSE r.pool,
        buf |-> r.buf,
        exceeded |-> exceeded]

allocate_buffer_observer(pool, o, malloc_ok) ==
    LET r == allocate_buffer_impl(pool, malloc_ok)
        exceeded == r.pool.m_exceeded_max_size
    IN [pool |-> IF exceeded /\ o # NoObserver
                 THEN [r.pool EXCEPT !.m_observers = Append(@, o)]
                 ELSE r.pool,
        buf |-> r.buf,
        exceeded |-> exceeded]

\* returns the pool and the tasks posted to m_ios
check_buffer_level(pool) ==
    IF ~pool.m_exceeded_max_size \/ pool.m_size > pool.m_low_watermark
    THEN [pool |-> pool, posted |-> <<>>]
    ELSE [pool |-> [pool EXCEPT !.m_exceeded_max_size = FALSE, !.m_observers = <<>>],
          posted |-> <<[task |-> "watermark_callback", cbs |-> pool.m_observers]>>]

\* a free that is accounted twice
free_disk_buffer_twice(pool) ==
    check_buffer_level([pool EXCEPT !.m_size = @ - 2])

free_disk_buffer(pool) ==
    check_buffer_level([pool EXCEPT !.m_size = @ - 1])

\* a set_settings that never latches m_exceeded_max_size
set_settings_unlatched(pool, cache_blocks) ==
    LET configured == IF cache_blocks = 0 THEN BUFFER_COUNT ELSE cache_blocks
        new_max_use == IF configured < 16 THEN 16 ELSE configured
    IN [pool EXCEPT !.m_max_use = new_max_use,
                    !.m_low_watermark = new_max_use \div 2,
                    !.m_high_watermark = new_max_use - (new_max_use \div 8)]

\* cache_blocks: settings_pack::cache_size converted to a number of buffers
set_settings(pool, cache_blocks) ==
    LET configured == IF cache_blocks = 0 THEN BUFFER_COUNT ELSE cache_blocks
        new_max_use == IF configured < 16 THEN 16 ELSE configured
        p1 == [pool EXCEPT !.m_max_use = new_max_use,
                           !.m_low_watermark = new_max_use \div 2,
                           !.m_high_watermark = new_max_use - (new_max_use \div 8)]
    IN IF p1.m_size >= p1.m_max_use
       THEN [p1 EXCEPT !.m_exceeded_max_size = TRUE]
       ELSE p1


(***************************************************************************)
(* torrent_location and cache_entry                                        *)
(***************************************************************************)
torrent_location(t, p, o) == [torrent |-> t, piece |-> p, offset |-> o]

\* unit offsets of the blocks of the piece
BlockOffsets == {o \in 0..(PieceUnits - 1) : o % DEFAULT_BLOCK_SIZE = 0}
Locs == {torrent_location(0, 0, o) : o \in BlockOffsets}

\* a freshly malloc'ed block
JunkBuffer == [i \in 1..DEFAULT_BLOCK_SIZE |-> Junk]

\* memcpy(dst + at, src, n), positions counted from 0
memcpy(dst, at, src, n) ==
    [i \in 1..Len(dst) |-> IF i > at /\ i <= at + n THEN src[i - at] ELSE dst[i]]

\* the n units of buf that start at unit from (counted from 0); units past the
\* end of the malloc'ed block are whatever follows it in memory
slice(buf, from, n) ==
    [i \in 1..n |-> IF from + i <= Len(buf) THEN buf[from + i] ELSE Junk]

(***************************************************************************)
(* cache_partition                                                         *)
(***************************************************************************)
\* an empty std::unordered_map
NoEntries == [l \in {} |-> 0]

cache_partition(max_entries) ==
    [m_entries |-> NoEntries, m_write_lru |-> <<>>, m_read_lru1 |-> <<>>,
     m_read_lru2 |-> <<>>, m_max_entries |-> max_entries,
     m_num_dirty |-> 0, m_num_clean |-> 0]

lru_list(p, state) ==
    CASE state = "write_lru" -> p.m_write_lru
      [] state = "read_lru1" -> p.m_read_lru1
      [] state = "read_lru2" -> p.m_read_lru2

set_lru_list(p, state, list) ==
    CASE state = "write_lru" -> [p EXCEPT !.m_write_lru = list]
      [] state = "read_lru1" -> [p EXCEPT !.m_read_lru1 = list]
      [] state = "read_lru2" -> [p EXCEPT !.m_read_lru2 = list]

\* list.erase(entry.lru_iter)
list_erase(list, loc) == SelectSeq(list, LAMBDA x : x # loc)

\* list.push_front(loc)
list_push_front(list, loc) == <<loc>> \o list

map_erase(entries, loc) == [l \in (DOMAIN entries) \ {loc} |-> entries[l]]

move_to_list(p, loc, new_state) ==
    LET old_state == p.m_entries[loc].state
    IN IF old_state = new_state
       THEN p
       ELSE LET p1 == set_lru_list(p, old_state, list_erase(lru_list(p, old_state), loc))
                p2 == set_lru_list(p1, new_state, list_push_front(lru_list(p1, new_state), loc))
            IN [p2 EXCEPT !.m_entries[loc].state = new_state]

\* a hit that leaves the entry where it is
touch_in_list_stay(p, loc) == p

\* erase + push_front within the list the entry is in
touch_in_list(p, loc) ==
    LET state == p.m_entries[loc].state
    IN set_lru_list(p, state, list_push_front(list_erase(lru_list(p, state), loc), loc))

\* an eviction that takes the back of write_lru when both read lists are empty
evict_one_lru_dirty(p) ==
    IF p.m_read_lru1 # <<>>
    THEN [p |-> [p EXCEPT !.m_entries = map_erase(@, p.m_read_lru1[Len(p.m_read_lru1)]),
                          !.m_read_lru1 = SubSeq(@, 1, Len(@) - 1),
                          !.m_num_clean = @ - 1],
          evicted |-> TRUE]
    ELSE IF p.m_read_lru2 # <<>>
    THEN [p |-> [p EXCEPT !.m_entries = map_erase(@, p.m_read_lru2[Len(p.m_read_lru2)]),
                          !.m_read_lru2 = SubSeq(@, 1, Len(@) - 1),
                          !.m_num_clean = @ - 1],
          evicted |-> TRUE]
    ELSE IF p.m_write_lru # <<>>
    THEN [p |-> [p EXCEPT !.m_entries = map_erase(@, p.m_write_lru[Len(p.m_write_lru)]),
                          !.m_write_lru = SubSeq(@, 1, Len(@) - 1),
                          !.m_num_dirty = @ - 1],
          evicted |-> TRUE]
    ELSE [p |-> p, evicted |-> FALSE]

\* returns the partition and whether an entry was evicted
evict_one_lru(p) ==
    IF p.m_read_lru1 # <<>>
    THEN LET loc == p.m_read_lru1[Len(p.m_read_lru1)]
         IN IF loc \notin DOMAIN p.m_entries
            THEN [p |-> p, evicted |-> FALSE]
            ELSE [p |-> [p EXCEPT !.m_entries = map_erase(@, loc),
                                  !.m_read_lru1 = SubSeq(@, 1, Len(@) - 1),
                                  !.m_num_clean = @ - 1],
                  evicted |-> TRUE]
    ELSE IF p.m_read_lru2 # <<>>
    THEN LET loc == p.m_read_lru2[Len(p.m_read_lru2)]
         IN IF loc \notin DOMAIN p.m_entries
            THEN [p |-> p, evicted |-> FALSE]
            ELSE [p |-> [p EXCEPT !.m_entries = map_erase(@, loc),
                                  !.m_read_lru2 = SubSeq(@, 1, Len(@) - 1),
                                  !.m_num_clean = @ - 1],
                  evicted |-> TRUE]
    ELSE [p |-> p, evicted |-> FALSE]

\* a loop that makes room at any price: when nothing clean is left it drops
\* the back of write_lru
RECURSIVE evict_for_insert_drop(_)
evict_for_insert_drop(p) ==
    IF Cardinality(DOMAIN p.m_entries) >= p.m_max_entries /\ DOMAIN p.m_entries # {}
    THEN LET r == evict_one_lru(p)
         IN IF r.evicted THEN evict_for_insert_drop(r.p)
            ELSE evict_for_insert_drop(
                     [p EXCEPT !.m_entries = map_erase(@, p.m_write_lru[Len(p.m_write_lru)]),
                               !.m_write_lru = SubSeq(@, 1, Len(@) - 1),
                               !.m_num_dirty = @ - 1])
    ELSE p

\* while (m_entries.size() >= m_max_entries) { if (!evict_one_lru()) break; }
RECURSIVE evict_for_insert(_)
evict_for_insert(p) ==
    IF Cardinality(DOMAIN p.m_entries) >= p.m_max_entries
    THEN LET r == evict_one_lru(p)
         IN IF r.evicted THEN evict_for_insert(r.p) ELSE p
    ELSE p

\* cache_partition::insert; malloc_ok is the outcome of the malloc of a new entry
insert(p, loc, data, length, dirty, malloc_ok) ==
    IF loc \in DOMAIN p.m_entries
    THEN LET e == p.m_entries[loc]
             p1 == [p EXCEPT !.m_entries[loc].buffer = memcpy(e.buffer, 0, data, length),
                             !.m_entries[loc].length = length,
                             !.m_entries[loc].dirty = dirty]
             p2 == IF dirty /\ ~e.dirty
                   THEN [p1 EXCEPT !.m_num_clean = @ - 1, !.m_num_dirty = @ + 1]
                   ELSE IF ~dirty /\ e.dirty
                   THEN [p1 EXCEPT !.m_num_dirty = @ - 1, !.m_num_clean = @ + 1]
                   ELSE p1
             new_state == IF dirty THEN "write_lru" ELSE "read_lru1"
         IN IF e.state # new_state
            THEN move_to_list(p2, loc, new_state)
            ELSE touch_in_list(p2, loc)
    ELSE LET p1 == evict_for_insert(p)
         IN IF ~malloc_ok
            THEN p1
            ELSE LET state == IF dirty THEN "write_lru" ELSE "read_lru1"
                     entry == [buffer |-> memcpy(JunkBuffer, 0, data, length),
                               length |-> length, dirty |-> dirty, state |-> state]
                     p2 == set_lru_list(p1, state, list_push_front(lru_list(p1, state), loc))
                     p3 == IF dirty
                           THEN [p2 EXCEPT !.m_num_dirty = @ + 1]
                           ELSE [p2 EXCEPT !.m_num_clean = @ + 1]
                 IN [p3 EXCEPT !.m_entries = (loc :> entry) @@ @]

\* a mark_clean that forgets the counters
partition_mark_clean_uncounted(p, loc) ==
    IF loc \in DOMAIN p.m_entries /\ p.m_entries[loc].dirty
    THEN LET p1 == [p EXCEPT !.m_entries[loc].dirty = FALSE]
         IN IF p.m_entries[loc].state = "write_lru"
            THEN move_to_list(p1, loc, "read_lru2")
            ELSE p1
    ELSE p

\* cache_partition::mark_clean
partition_mark_clean(p, loc) ==
    IF loc \in DOMAIN p.m_entries /\ p.m_entries[loc].dirty
    THEN LET p1 == [p EXCEPT !.m_entries[loc].dirty = FALSE]
         IN IF p.m_entries[loc].state = "write_lru"
            THEN [move_to_list(p1, loc, "read_lru2")
                    EXCEPT !.m_num_dirty = @ - 1, !.m_num_clean = @ + 1]
            ELSE p1
    ELSE p

\* the LRU effect of a hit in cache_partition::get / get2
promote(p, loc) ==
    IF p.m_entries[loc].state = "read_lru1"
    THEN move_to_list(p, loc, "read_lru2")
    ELSE touch_in_list(p, loc)

\* cache_partition::get: hit, the buffer handed to f, and the partition afterwards
\* a lookup that never finds the entry
partition_get_miss(p, loc) == [hit |-> FALSE, buffer |-> <<>>, p |-> p]

partition_get(p, loc) ==
    IF loc \in DOMAIN p.m_entries
    THEN [hit |-> TRUE, buffer |-> p.m_entries[loc].buffer, p |-> promote(p, loc)]
    ELSE [hit |-> FALSE, buffer |-> <<>>, p |-> p]

\* cache_partition::get2: both locations in this partition
partition_get2(p, loc1, loc2) ==
    LET hit1 == loc1 \in DOMAIN p.m_entries
        hit2 == loc2 \in DOMAIN p.m_entries
        p1 == IF hit1 THEN promote(p, loc1) ELSE p
        p2 == IF hit2 THEN promote(p1, loc2) ELSE p1
    IN [hit1 |-> hit1, hit2 |-> hit2,
        buf1 |-> IF hit1 THEN p.m_entries[loc1].buffer ELSE <<>>,
        buf2 |-> IF hit2 THEN p.m_entries[loc2].buffer ELSE <<>>,
        p |-> p2]


(***************************************************************************)
(* unified_cache                                                           *)
(***************************************************************************)
unified_cache(max_entries) ==
    [i \in 0..(NUM_PARTITIONS - 1) |-> cache_partition(max_entries)]

\* (hash >> 32) % NUM_PARTITIONS; the hash mixes storage, piece and offset
get_partition_index(loc) == partition_of[loc]

insert_write(cache, loc, data, length, malloc_ok) ==
    LET idx == get_partition_index(loc)
    IN [cache EXCEPT ![idx] = insert(@, loc, data, length, TRUE, malloc_ok)]

insert_read(cache, loc, data, length, malloc_ok) ==
    LET idx == get_partition_index(loc)
    IN [cache EXCEPT ![idx] = insert(@, loc, data, length, FALSE, malloc_ok)]

mark_clean(cache, loc) ==
    LET idx == get_partition_index(loc)
    IN [cache EXCEPT ![idx] = partition_mark_clean(@, loc)]

\* unified_cache::get
get(cache, loc) ==
    LET idx == get_partition_index(loc)
        r == partition_get(cache[idx], loc)
    IN [hit |-> r.hit, buffer |-> r.buffer, cache |-> [cache EXCEPT ![idx] = r.p]]

\* unified_cache::get2
get2(cache, loc1, loc2) ==
    LET idx1 == get_partition_index(loc1)
        idx2 == get_partition_index(loc2)
    IN IF idx1 = idx2
       THEN LET r == partition_get2(cache[idx1], loc1, loc2)
            IN [hit1 |-> r.hit1, hit2 |-> r.hit2, buf1 |-> r.buf1, buf2 |-> r.buf2,
                cache |-> [cache EXCEPT ![idx1] = r.p]]
       ELSE LET r1 == get(cache, loc1)
                r2 == get(r1.cache, loc2)
            IN [hit1 |-> r1.hit, hit2 |-> r2.hit, buf1 |-> r1.buffer, buf2 |-> r2.buffer,
                cache |-> r2.cache]

(***************************************************************************)
(* partition_storage: one file, whose name is the device offset in hex     *)
(***************************************************************************)
piece_size == PieceUnits

\* what pread / pwrite do with a request: all of it, all but the last unit,
\* or nothing (return value -1 and errno)
IoResults == {"ok", "short", "error"}

\* the bytes a pread / pwrite of length bytes moves
transferred(io, length) ==
    CASE io = "ok" -> length
      [] io = "short" -> length - 1
      [] io = "error" -> 0

\* partition_storage::read into buffer + at, io being what pread does; ret is
\* the byte count returned.  The return value of pread is not looked at.
storage_read_io(dev, buffer, at, offset, length, io) ==
    IF ~parse_ok
    THEN [buffer |-> buffer, ret |-> 0, error |-> "parse_failed"]
    ELSE [buffer |-> memcpy(buffer, at, [i \in 1..length |-> dev[offset + i - 1]],
                            transferred(io, length)),
          ret |-> length, error |-> "none"]

\* partition_storage::read when pread transfers everything
storage_read(dev, buffer, at, offset, length) ==
    storage_read_io(dev, buffer, at, offset, length, "ok")

\* partition_storage::write, io being what pwrite does; its return value is
\* not looked at
storage_write_io(dev, data, offset, length, io) ==
    IF ~parse_ok
    THEN [device |-> dev, error |-> "parse_failed"]
    ELSE [device |-> [u \in DOMAIN dev |->
                        IF u >= offset /\ u < offset + transferred(io, length)
                        THEN data[u - offset + 1] ELSE dev[u]],
          error |-> "none"]

\* partition_storage::write when pwrite transfers everything
storage_write(dev, data, offset, length) ==
    storage_write_io(dev, data, offset, length, "ok")


(***************************************************************************)
(* raw_disk_io: the calls of the session                                   *)
(***************************************************************************)
\* one async_* call: its arguments, the position of its task, and a record
\* of what happened to it
NewJob(op, start, length) ==
    [op |-> op, start |-> start, length |-> length,
     pool |-> "none", pc |-> "queued", path |-> "none",
     buf |-> <<>>, ret |-> 0, offset |-> 0, error |-> "none", exceeded |-> FALSE,
     fed |-> <<>>, steps |-> <<>>,
     via |-> "none", invoked |-> 0, result |-> <<>>,
     expect_known |-> FALSE, expect |-> <<>>,
     views |-> <<>>, blocks |-> <<>>, disturbed |-> FALSE,
     on_device |-> FALSE, in_cache |-> FALSE,
     seen_cache |-> <<>>, seen_device |-> <<>>, calls |-> <<>>,
     io |-> "none", storage_ret |-> 0, removed |-> FALSE]

handler_task(id) == [task |-> "handler", id |-> id]

\* a hash task that has not posted its result sees the device change
Disturb(js) ==
    [j \in DOMAIN js |->
        IF js[j].op = "hash" /\ js[j].pc \in {"queued", "hash_get", "hash_read"}
        THEN [js[j] EXCEPT !.disturbed = TRUE] ELSE js[j]]

\* a read that has not completed when a write to its block is submitted is
\* not ordered with that write
Forget(js, start) ==
    [j \in DOMAIN js |->
        IF js[j].op = "read" /\ js[j].pc # "done" /\ js[j].start = start
        THEN [js[j] EXCEPT !.expect_known = FALSE, !.expect = <<>>] ELSE js[j]]

\* the caller's bytes of the write with this id
write_data(id, length) == [i \in 1..length |-> id]

\* length of the block at this offset of the piece
block_length(offset) == Min(DEFAULT_BLOCK_SIZE, piece_size - offset)

WriteIds(offset) ==
    {j \in DOMAIN jobs : jobs[j].op = "write" /\ jobs[j].start = offset}

\* the write to this block submitted last, 0 when there is none
latest_write(offset) ==
    IF WriteIds(offset) = {} THEN 0
    ELSE CHOOSE j \in WriteIds(offset) : \A k \in WriteIds(offset) : k <= j

\* the bytes from..from+n-1 of the cache entry of loc, <<>> when there is none
entry_bytes(cache, loc, from, n) ==
    LET p == cache[get_partition_index(loc)]
    IN IF loc \in DOMAIN p.m_entries
       THEN [i \in 1..n |-> p.m_entries[loc].buffer[from + i]]
       ELSE <<>>

\* what a read of this whole block returns now: the cache entry when there is
\* one, the device otherwise
read_view(cache, dev, offset, length) ==
    LET loc == torrent_location(0, 0, offset)
        p == cache[get_partition_index(loc)]
    IN IF loc \in DOMAIN p.m_entries
       THEN slice(p.m_entries[loc].buffer, 0, length)
       ELSE [i \in 1..length |-> dev[offset + i - 1]]

new_torrent(file_name_is_hex) ==
    /\ storages_ = {}
    /\ LET idx == IF free_slots_ # <<>> THEN Head(free_slots_) ELSE Cardinality(storages_)
       IN /\ storages_' = storages_ \cup {idx}
          /\ free_slots_' = IF free_slots_ # <<>> THEN Tail(free_slots_) ELSE free_slots_
    /\ parse_ok' = file_name_is_hex
    /\ UNCHANGED <<m_buffer_pool, m_cache, partition_of, threads, device, jobs, ioc_, held,
                   waiting, last>>

CanSubmit == Len(jobs) < MaxOps /\ 0 \in storages_

\* the requests of the session: the whole blocks of the piece, the requests
\* that start in the first block and end in the second, and one request with
\* length 0
ReadRequests ==
    {r \in [start : 0..(piece_size - 1), length : 0..DEFAULT_BLOCK_SIZE] :
        \/ r.length = 0 /\ r.start = 0
        \/ r.start \in BlockOffsets /\ r.length = block_length(r.start)
        \/ r.start + r.length > DEFAULT_BLOCK_SIZE /\ r.start < DEFAULT_BLOCK_SIZE}

async_read(r, malloc_ok) ==
    /\ CanSubmit
    /\ r.start + r.length <= piece_size
    /\ LET id == Len(jobs) + 1
           job == NewJob("read", r.start, r.length)
           alloc == allocate_buffer(m_buffer_pool, malloc_ok)
           block_offset == r.start - (r.start % DEFAULT_BLOCK_SIZE)
           read_offset == r.start - block_offset
           loc1 == torrent_location(0, 0, block_offset)
           loc2 == torrent_location(0, 0, block_offset + DEFAULT_BLOCK_SIZE)
           len1 == DEFAULT_BLOCK_SIZE - read_offset
           w == latest_write(r.start)
           known == /\ read_offset = 0 /\ r.length = block_length(block_offset)
                    /\ w # 0 /\ jobs[w].pc = "done" /\ jobs[w].error = "none"
           crossing == read_offset + r.length > DEFAULT_BLOCK_SIZE
           ghost == [job EXCEPT !.expect_known = known,
                                !.expect = IF known THEN write_data(w, r.length) ELSE <<>>,
                                !.seen_cache = IF crossing
                                               THEN <<entry_bytes(m_cache, loc1, read_offset, len1),
                                                      entry_bytes(m_cache, loc2, 0, r.length - len1)>>
                                               ELSE <<>>]
       IN IF r.length <= 0 \/ r.start < 0
          THEN /\ jobs' = Append(jobs, [job EXCEPT !.pc = "done", !.path = "invalid",
                            !.error = "invalid_request", !.via = "inline", !.invoked = 1])
               /\ UNCHANGED <<m_buffer_pool, m_cache, held>>
          ELSE IF ~alloc.buf
          THEN /\ m_buffer_pool' = alloc.pool
               /\ jobs' = Append(jobs, [job EXCEPT !.pc = "done", !.path = "no_buffer",
                            !.error = "no_memory", !.via = "inline", !.invoked = 1])
               /\ UNCHANGED <<m_cache, held>>
          ELSE IF read_offset + r.length > DEFAULT_BLOCK_SIZE
          THEN LET g == get2(m_cache, loc1, loc2)
                   b1 == IF g.hit1
                         THEN memcpy(JunkBuffer, 0, slice(g.buf1, read_offset, len1), len1)
                         ELSE JunkBuffer
                   b2 == IF g.hit2
                         THEN memcpy(b1, len1, slice(g.buf2, 0, r.length - len1), r.length - len1)
                         ELSE b1
                   ret == (IF g.hit1 THEN 2 ELSE 0) + (IF g.hit2 THEN 1 ELSE 0)
               IN /\ m_buffer_pool' = alloc.pool
                  /\ m_cache' = g.cache
                  /\ IF ret = 3
                     THEN /\ jobs' = Append(jobs, [ghost EXCEPT !.pc = "done", !.path = "hit2",
                                       !.ret = ret, !.via = "inline", !.invoked = 1,
                                       !.result = slice(b2, 0, r.length)])
                          /\ held' = held + 1
                     ELSE /\ jobs' = Append(jobs, [ghost EXCEPT !.pool = "read",
                                       !.path = IF ret # 0 THEN "partial" ELSE "miss2",
                                       !.buf = b2, !.ret = ret])
                          /\ held' = held
          ELSE LET g == get(m_cache, loc1)
               IN /\ m_buffer_pool' = alloc.pool
                  /\ m_cache' = g.cache
                  /\ IF g.hit
                     THEN LET b == memcpy(JunkBuffer, 0, slice(g.buffer, read_offset, r.length),
                                          r.length)
                          IN /\ jobs' = Append(jobs, [ghost EXCEPT !.pc = "done", !.path = "hit",
                                          !.via = "inline", !.invoked = 1,
                                          !.result = slice(b, 0, r.length)])
                             /\ held' = held + 1
                     ELSE /\ jobs' = Append(jobs, [ghost EXCEPT !.pool = "read", !.path = "miss",
                                       !.buf = JunkBuffer])
                          /\ held' = held
    /\ UNCHANGED <<partition_of, threads, device, parse_ok, storages_, free_slots_, ioc_, waiting, last>>


\* every write of the session is one whole block of the piece
async_write(start, o, malloc_ok, cache_malloc_ok) ==
    /\ CanSubmit
    /\ o # NoObserver => ~waiting[o]
    /\ LET id == Len(jobs) + 1
           length == block_length(start)
           data == write_data(id, length)
           alloc == allocate_buffer_observer(m_buffer_pool, o, malloc_ok)
           loc == torrent_location(0, 0, start)
           job == [NewJob("write", start, length) EXCEPT
                      !.exceeded = alloc.exceeded]
       IN /\ m_buffer_pool' = alloc.pool
          /\ waiting' = IF alloc.exceeded /\ o # NoObserver
                        THEN [waiting EXCEPT ![o] = TRUE] ELSE waiting
          /\ IF alloc.buf
             THEN /\ m_cache' = insert_write(m_cache, loc, data, length, cache_malloc_ok)
                  /\ jobs' = Append(Forget(jobs, start),
                                    [job EXCEPT !.pool = "write", !.path = "buffered",
                                       !.buf = memcpy(JunkBuffer, 0, data, length),
                                       !.steps = <<"insert_write">>])
                  /\ UNCHANGED <<device, ioc_>>
             ELSE LET w == storage_write(device, data, start, length)
                  IN /\ device' = w.device
                     /\ ioc_' = Append(ioc_, handler_task(id))
                     /\ jobs' = Append(Forget(Disturb(jobs), start),
                                [job EXCEPT !.pc = "posted", !.path = "fallback",
                                            !.error = w.error,
                                            !.steps = <<"storage_write", "post">>])
                     /\ UNCHANGED m_cache
    /\ UNCHANGED <<partition_of, threads, parse_ok, storages_, free_slots_, held, last>>

async_hash(malloc_ok) ==
    /\ CanSubmit
    /\ LET id == Len(jobs) + 1
           alloc == allocate_buffer(m_buffer_pool, malloc_ok)
           job == NewJob("hash", 0, piece_size)
       IN /\ m_buffer_pool' = alloc.pool
          /\ IF alloc.buf
             THEN /\ jobs' = Append(jobs, [job EXCEPT !.pool = "hash", !.path = "hash",
                                                     !.buf = JunkBuffer])
                  /\ ioc_' = ioc_
             ELSE /\ jobs' = Append(jobs, [job EXCEPT !.pc = "posted", !.path = "no_buffer",
                                                     !.error = "no_memory"])
                  /\ ioc_' = Append(ioc_, handler_task(id))
    /\ UNCHANGED <<m_cache, partition_of, threads, device, parse_ok, storages_, free_slots_,
                   held, waiting, last>>

\* the operations that only post their completion
post_only(op) ==
    /\ CanSubmit
    /\ jobs' = Append(jobs, [NewJob(op, 0, 0) EXCEPT !.pc = "posted", !.path = "stub"])
    /\ ioc_' = Append(ioc_, handler_task(Len(jobs) + 1))
    /\ UNCHANGED <<m_buffer_pool, m_cache, partition_of, threads, device, parse_ok, storages_,
                   free_slots_, held, waiting, last>>

async_move_storage == post_only("move_storage")
async_check_files == post_only("check_files")
async_stop_torrent == post_only("stop_torrent")
async_rename_file == post_only("rename_file")
async_delete_files == post_only("delete_files")
async_set_file_priority == post_only("set_file_priority")
async_clear_piece == post_only("clear_piece")

\* the body of async_release_files is empty
async_release_files ==
    /\ CanSubmit
    /\ jobs' = Append(jobs, [NewJob("release_files", 0, 0) EXCEPT !.pc = "returned",
                                                                !.path = "stub"])
    /\ UNCHANGED <<m_buffer_pool, m_cache, partition_of, threads, device, parse_ok, storages_,
                   free_slots_, ioc_, held, waiting, last>>


(***************************************************************************)
(* raw_disk_io: the tasks run by the thread pools                          *)
(***************************************************************************)
pool_threads(pool) == IF pool = "hash" THEN HashingThreads ELSE AioThreads

\* tasks of this pool that occupy one of its threads
Running(pool) ==
    {j \in DOMAIN jobs : jobs[j].pool = pool
                         /\ jobs[j].pc \notin {"queued", "posted", "done"}}

\* boost::asio::thread_pool: an idle thread takes the oldest task of the queue
CanStart(id) ==
    /\ jobs[id].pc = "queued"
    /\ \A j \in 1..(id - 1) : jobs[j].pool = jobs[id].pool => jobs[j].pc # "queued"
    /\ Cardinality(Running(jobs[id].pool)) < pool_threads(jobs[id].pool)

\* a thread of the pool takes the task and begins to run it
thread_pool_run(id) ==
    /\ id \in DOMAIN jobs /\ CanStart(id)
    /\ jobs' = [jobs EXCEPT ![id].pc = IF jobs[id].op = "read" THEN "storage_read"
                                       ELSE IF jobs[id].op = "write" THEN "storage_write"
                                       ELSE "hash_get"]
    /\ UNCHANGED <<m_buffer_pool, m_cache, partition_of, threads, device, parse_ok, storages_,
                   free_slots_, ioc_, held, waiting, last>>

\* the storage call of a partial hit with the first block missing, read to the
\* slot of the second block
storage_call_shifted(j) ==
    LET block_offset == j.start - (j.start % DEFAULT_BLOCK_SIZE)
        len1 == DEFAULT_BLOCK_SIZE - (j.start - block_offset)
        hit1 == j.ret \in {2, 3}
    IN IF j.path # "partial"
       THEN [offset |-> j.start, len |-> j.length, buf_offset |-> 0]
       ELSE IF hit1
       THEN [offset |-> block_offset + DEFAULT_BLOCK_SIZE, len |-> j.length - len1,
             buf_offset |-> len1]
       ELSE [offset |-> j.start, len |-> len1, buf_offset |-> j.length - len1]

\* the storage call of a read task: offset, len and buf_offset
storage_call(j) ==
    LET block_offset == j.start - (j.start % DEFAULT_BLOCK_SIZE)
        len1 == DEFAULT_BLOCK_SIZE - (j.start - block_offset)
        hit1 == j.ret \in {2, 3}
    IN IF j.path # "partial"
       THEN [offset |-> j.start, len |-> j.length, buf_offset |-> 0]
       ELSE IF hit1
       THEN [offset |-> block_offset + DEFAULT_BLOCK_SIZE, len |-> j.length - len1,
             buf_offset |-> len1]
       ELSE [offset |-> j.start, len |-> len1, buf_offset |-> 0]

\* the storage read of a read task, io being what pread does
read_task_read_io(id, io) ==
    /\ id \in DOMAIN jobs /\ jobs[id].op = "read" /\ jobs[id].pc = "storage_read"
    /\ LET j == jobs[id]
           c == storage_call(j)
           r == storage_read_io(device, j.buf, c.buf_offset, c.offset, c.len, io)
       IN jobs' = [jobs EXCEPT ![id] = [j EXCEPT
                      !.buf = r.buffer, !.error = r.error,
                      !.io = io, !.storage_ret = r.ret,
                      !.steps = Append(@, "storage_read"),
                      !.calls = Append(@, c),
                      !.seen_device = [i \in 1..j.length |-> device[j.start + i - 1]],
                      !.pc = IF j.path = "miss" /\ r.error = "none"
                             THEN "insert_read" ELSE "post"]]
    /\ UNCHANGED <<m_buffer_pool, m_cache, partition_of, threads, device, parse_ok, storages_,
                   free_slots_, ioc_, held, waiting, last>>

read_task_insert(id, cache_malloc_ok) ==
    /\ id \in DOMAIN jobs /\ jobs[id].op = "read" /\ jobs[id].pc = "insert_read"
    /\ LET j == jobs[id]
           block_offset == j.start - (j.start % DEFAULT_BLOCK_SIZE)
       IN /\ m_cache' = insert_read(m_cache, torrent_location(0, 0, block_offset),
                                    j.buf, j.length, cache_malloc_ok)
          /\ jobs' = [jobs EXCEPT ![id].pc = "post", ![id].steps = Append(@, "insert_read")]
    /\ UNCHANGED <<m_buffer_pool, partition_of, threads, device, parse_ok, storages_, free_slots_,
                   ioc_, held, waiting, last>>

\* the buffer travels to the handler inside the posted completion
read_task_post(id) ==
    /\ id \in DOMAIN jobs /\ jobs[id].op = "read" /\ jobs[id].pc = "post"
    /\ ioc_' = Append(ioc_, handler_task(id))
    /\ jobs' = [jobs EXCEPT ![id].pc = "posted", ![id].steps = Append(@, "post")]
    /\ UNCHANGED <<m_buffer_pool, m_cache, partition_of, threads, device, parse_ok, storages_,
                   free_slots_, held, waiting, last>>

read_task_read(id) == read_task_read_io(id, "ok")

\* a write task that posts its completion right after the storage write
write_task_write_skip(id) ==
    /\ id \in DOMAIN jobs /\ jobs[id].op = "write" /\ jobs[id].pc = "storage_write"
    /\ LET j == jobs[id]
           w == storage_write(device, j.buf, j.start, j.length)
       IN /\ device' = w.device
          /\ jobs' = [Disturb(jobs) EXCEPT ![id] = [j EXCEPT
                         !.error = w.error, !.pc = "post",
                         !.steps = Append(@, "storage_write")]]
    /\ UNCHANGED <<m_buffer_pool, m_cache, partition_of, threads, parse_ok, storages_, free_slots_,
                   ioc_, held, waiting, last>>

\* the storage write of a write task, io being what pwrite does
write_task_write_io(id, io) ==
    /\ id \in DOMAIN jobs /\ jobs[id].op = "write" /\ jobs[id].pc = "storage_write"
    /\ LET j == jobs[id]
           w == storage_write_io(device, j.buf, j.start, j.length, io)
       IN /\ device' = w.device
          /\ jobs' = [Disturb(jobs) EXCEPT ![id] = [j EXCEPT
                         !.error = w.error, !.pc = "mark_clean", !.io = io,
                         !.steps = Append(@, "storage_write")]]
    /\ UNCHANGED <<m_buffer_pool, m_cache, partition_of, threads, parse_ok, storages_, free_slots_,
                   ioc_, held, waiting, last>>

write_task_write(id) == write_task_write_io(id, "ok")

write_task_mark_clean(id) ==
    /\ id \in DOMAIN jobs /\ jobs[id].op = "write" /\ jobs[id].pc = "mark_clean"
    /\ m_cache' = mark_clean(m_cache, torrent_location(0, 0, jobs[id].start))
    /\ jobs' = [jobs EXCEPT ![id].pc = "post", ![id].steps = Append(@, "mark_clean")]
    /\ UNCHANGED <<m_buffer_pool, partition_of, threads, device, parse_ok, storages_, free_slots_,
                   ioc_, held, waiting, last>>

\* post the completion; the task object, and with it the pool buffer, is
\* destroyed when the task returns
write_task_post(id) ==
    /\ id \in DOMAIN jobs /\ jobs[id].op = "write" /\ jobs[id].pc = "post"
    /\ LET f == free_disk_buffer(m_buffer_pool)
       IN /\ m_buffer_pool' = f.pool
          /\ ioc_' = Append(ioc_, handler_task(id)) \o f.posted
    /\ jobs' = [jobs EXCEPT ![id].pc = "posted", ![id].steps = Append(@, "post")]
    /\ UNCHANGED <<m_cache, partition_of, threads, device, parse_ok, storages_, free_slots_,
                   held, waiting, last>>

\* libtorrent::hasher: the digest is a function of the bytes fed, in order
SHA1(bytes) == <<"sha1", bytes>>

blocks_in_piece == (piece_size + DEFAULT_BLOCK_SIZE - 1) \div DEFAULT_BLOCK_SIZE

\* one iteration of the loop over the blocks: the cache lookup
hash_task_get(id) ==
    /\ id \in DOMAIN jobs /\ jobs[id].op = "hash" /\ jobs[id].pc = "hash_get"
    /\ LET j == jobs[id]
           len == Min(DEFAULT_BLOCK_SIZE, piece_size - j.offset)
           g == get(m_cache, torrent_location(0, 0, j.offset))
           seen == [j EXCEPT !.views = @ \o read_view(m_cache, device, j.offset, len),
                             !.blocks = Append(@, j.offset),
                             !.steps = Append(@, "get")]
       IN /\ m_cache' = g.cache
          /\ jobs' = [jobs EXCEPT ![id] =
                IF g.hit
                THEN [seen EXCEPT !.fed = @ \o slice(g.buffer, 0, len),
                                  !.offset = @ + len, !.ret = @ + 1,
                                  !.pc = IF j.ret + 1 < blocks_in_piece
                                         THEN "hash_get" ELSE "post"]
                ELSE [seen EXCEPT !.pc = "hash_read"]]
    /\ UNCHANGED <<m_buffer_pool, partition_of, threads, device, parse_ok, storages_, free_slots_,
                   ioc_, held, waiting, last>>

\* the same iteration after a miss: the block is read from storage
hash_task_read(id) ==
    /\ id \in DOMAIN jobs /\ jobs[id].op = "hash" /\ jobs[id].pc = "hash_read"
    /\ LET j == jobs[id]
           len == Min(DEFAULT_BLOCK_SIZE, piece_size - j.offset)
           r == storage_read(device, j.buf, 0, j.offset, len)
       IN jobs' = [jobs EXCEPT ![id] = [j EXCEPT
                      !.buf = r.buffer, !.error = r.error,
                      !.steps = Append(@, "storage_read"),
                      !.fed = IF r.ret > 0 THEN @ \o slice(r.buffer, 0, r.ret) ELSE @,
                      !.offset = @ + r.ret, !.ret = @ + 1,
                      !.pc = IF r.ret > 0 /\ j.ret + 1 < blocks_in_piece
                             THEN "hash_get" ELSE "post"]]
    /\ UNCHANGED <<m_buffer_pool, m_cache, partition_of, threads, device, parse_ok, storages_,
                   free_slots_, ioc_, held, waiting, last>>

hash_task_post(id) ==
    /\ id \in DOMAIN jobs /\ jobs[id].op = "hash" /\ jobs[id].pc = "post"
    /\ LET f == free_disk_buffer(m_buffer_pool)
       IN /\ m_buffer_pool' = f.pool
          /\ ioc_' = Append(ioc_, handler_task(id)) \o f.posted
    /\ jobs' = [jobs EXCEPT ![id].pc = "posted", ![id].result = SHA1(jobs[id].fed),
                            ![id].steps = Append(@, "post")]
    /\ UNCHANGED <<m_cache, partition_of, threads, device, parse_ok, storages_, free_slots_,
                   held, waiting, last>>


(***************************************************************************)
(* The callback executor ioc_ and the caller                               *)
(***************************************************************************)
\* ioc_ runs the completion that was posted first
run_handler ==
    /\ ioc_ # <<>> /\ Head(ioc_).task = "handler"
    /\ LET id == Head(ioc_).id
           j == jobs[id]
           loc == torrent_location(0, 0, j.start)
           p == m_cache[get_partition_index(loc)]
       IN /\ jobs' = [jobs EXCEPT ![id] = [j EXCEPT
                !.pc = "done", !.via = "ioc", !.invoked = @ + 1, !.buf = <<>>,
                !.result = IF j.op = "read" THEN slice(j.buf, 0, j.length) ELSE @,
                !.on_device = /\ j.op = "write"
                              /\ \A i \in 1..j.length : device[j.start + i - 1] = id,
                !.in_cache = /\ j.op = "write"
                             /\ loc \in DOMAIN p.m_entries
                             /\ slice(p.m_entries[loc].buffer, 0, j.length)
                                    = write_data(id, j.length)]]
          /\ held' = IF j.op = "read" THEN held + 1 ELSE held
    /\ ioc_' = Tail(ioc_)
    /\ UNCHANGED <<m_buffer_pool, m_cache, partition_of, threads, device, parse_ok, storages_,
                   free_slots_, waiting, last>>

\* watermark_callback: on_disk of every observer of the detached list
run_watermark_callback ==
    /\ ioc_ # <<>> /\ Head(ioc_).task = "watermark_callback"
    /\ LET cbs == Head(ioc_).cbs
           notified == {cbs[i] : i \in DOMAIN cbs}
       IN /\ waiting' = [o \in Observers |-> IF o \in notified THEN FALSE ELSE waiting[o]]
          /\ last' = [last EXCEPT !.call = "on_disk", !.cbs = cbs,
                         !.exceeded = m_buffer_pool.m_exceeded_max_size,
                         !.spurious = \E o \in notified : ~waiting[o]]
    /\ ioc_' = Tail(ioc_)
    /\ UNCHANGED <<m_buffer_pool, m_cache, partition_of, threads, device, parse_ok, storages_,
                   free_slots_, jobs, held>>

\* the caller drops the disk_buffer_holder of a finished read
free_held ==
    /\ held > 0
    /\ LET f == free_disk_buffer(m_buffer_pool)
       IN /\ m_buffer_pool' = f.pool
          /\ ioc_' = ioc_ \o f.posted
    /\ held' = held - 1
    /\ UNCHANGED <<m_cache, partition_of, threads, device, parse_ok, storages_, free_slots_,
                   jobs, waiting, last>>

(***************************************************************************)
(* The engine                                                              *)
(***************************************************************************)
NoCall ==
    [call |-> "none", cbs |-> <<>>, exceeded |-> FALSE, spurious |-> FALSE,
     ret |-> FALSE, malloc_ok |-> TRUE, size_before |-> 0, exceeded_before |-> FALSE,
     writes |-> 0, freed |-> FALSE, cleared |-> FALSE]

\* the thread that runs ioc_ and makes the async_* calls, and a pool thread
Threads == {"caller", "worker"}

\* a thread that is inside no cache or pool call
Idle == [pc |-> "idle", call |-> "none", holds |-> {}]

Init ==
    /\ threads = [t \in Threads |-> Idle]
    /\ m_buffer_pool = buffer_pool
    /\ m_cache = unified_cache(PartitionEntries)
    /\ partition_of \in [Locs -> 0..(NUM_PARTITIONS - 1)]
    /\ partition_of[torrent_location(0, 0, 0)] = 0
    /\ device = [u \in 0..(PieceUnits - 1) |-> Blank]
    /\ parse_ok = TRUE
    /\ storages_ = {}
    /\ free_slots_ = <<>>
    /\ jobs = <<>>
    /\ ioc_ = <<>>
    /\ held = 0
    /\ waiting = [o \in Observers |-> FALSE]
    /\ last = NoCall

\* the malloc of a new cache entry succeeds
CacheMalloc == {TRUE}

Next ==
    \/ \E ok \in BOOLEAN : new_torrent(ok)
    \/ \E r \in ReadRequests, ok \in BOOLEAN : async_read(r, ok)
    \/ \E start \in BlockOffsets, o \in Observers \cup {NoObserver}, ok \in BOOLEAN,
          cache_ok \in CacheMalloc : async_write(start, o, ok, cache_ok)
    \/ \E ok \in BOOLEAN : async_hash(ok)
    \/ \E id \in 1..MaxOps : thread_pool_run(id)
    \/ \E id \in 1..MaxOps : read_task_read(id)
    \/ \E id \in 1..MaxOps, cache_ok \in CacheMalloc : read_task_insert(id, cache_ok)
    \/ \E id \in 1..MaxOps : read_task_post(id)
    \/ \E id \in 1..MaxOps : write_task_write(id)
    \/ \E id \in 1..MaxOps : write_task_mark_clean(id)
    \/ \E id \in 1..MaxOps : write_task_post(id)
    \/ \E id \in 1..MaxOps : hash_task_get(id)
    \/ \E id \in 1..MaxOps : hash_task_read(id)
    \/ \E id \in 1..MaxOps : hash_task_post(id)
    \/ run_handler
    \/ run_watermark_callback
    \/ free_held

Spec == Init /\ [][Next]_vars

(***************************************************************************)
(* The operations that only post a completion, with the callback executor  *)
(***************************************************************************)
NextControl ==
    \/ \E ok \in BOOLEAN : new_torrent(ok)
    \/ async_move_storage
    \/ async_release_files
    \/ async_check_files
    \/ async_stop_torrent
    \/ async_rename_file
    \/ async_delete_files
    \/ async_set_file_priority
    \/ async_clear_piece
    \/ run_handler

SpecControl == Init /\ [][NextControl]_vars

(***************************************************************************)
(* The buffer pool under the calls the engine makes on it                  *)
(***************************************************************************)
\* allocate_buffer() as called by async_read and async_hash
pool_allocate_buffer(malloc_ok) ==
    /\ LET a == allocate_buffer(m_buffer_pool, malloc_ok)
       IN /\ m_buffer_pool' = a.pool
          /\ held' = IF a.buf THEN held + 1 ELSE held
          /\ last' = [last EXCEPT !.call = "allocate_buffer", !.ret = a.buf,
                         !.malloc_ok = malloc_ok,
                         !.size_before = m_buffer_pool.m_size,
                         !.exceeded_before = m_buffer_pool.m_exceeded_max_size]
    /\ UNCHANGED <<m_cache, partition_of, threads, device, parse_ok, storages_, free_slots_,
                   jobs, ioc_, waiting>>

\* allocate_buffer(exceeded, o) as called by async_write, which returns exceeded
pool_async_write(o, malloc_ok) ==
    /\ o # NoObserver => ~waiting[o]
    /\ LET a == allocate_buffer_observer(m_buffer_pool, o, malloc_ok)
       IN /\ m_buffer_pool' = a.pool
          /\ held' = IF a.buf THEN held + 1 ELSE held
          /\ waiting' = IF a.exceeded /\ o # NoObserver
                        THEN [waiting EXCEPT ![o] = TRUE] ELSE waiting
          /\ last' = [last EXCEPT !.call = "async_write", !.ret = a.exceeded,
                         !.malloc_ok = malloc_ok,
                         !.size_before = m_buffer_pool.m_size,
                         !.exceeded_before = m_buffer_pool.m_exceeded_max_size,
                         !.writes = Min(@ + 1, BUFFER_COUNT + 1)]
    /\ UNCHANGED <<m_cache, partition_of, threads, device, parse_ok, storages_, free_slots_,
                   jobs, ioc_>>

\* free_disk_buffer of a buffer handed out before
pool_free_disk_buffer ==
    /\ held > 0
    /\ Len(ioc_) < MaxPending
    /\ LET f == free_disk_buffer(m_buffer_pool)
       IN /\ m_buffer_pool' = f.pool
          /\ ioc_' = ioc_ \o f.posted
          /\ last' = [last EXCEPT !.call = "free_disk_buffer", !.freed = TRUE,
                         !.cleared = @ \/ f.posted # <<>>,
                         !.size_before = m_buffer_pool.m_size,
                         !.exceeded_before = m_buffer_pool.m_exceeded_max_size]
    /\ held' = held - 1
    /\ UNCHANGED <<m_cache, partition_of, threads, device, parse_ok, storages_, free_slots_,
                   jobs, waiting>>

NextPool ==
    \/ \E ok \in BOOLEAN : pool_allocate_buffer(ok)
    \/ \E o \in Observers \cup {NoObserver}, ok \in BOOLEAN : pool_async_write(o, ok)
    \/ pool_free_disk_buffer
    \/ run_watermark_callback

SpecPool == Init /\ [][NextPool]_vars

(***************************************************************************)
(* Properties                                                              *)
(***************************************************************************)
\* nothing is queued, running or posted
AtRest ==
    /\ ioc_ = <<>>
    /\ \A id \in DOMAIN jobs : jobs[id].pc \in {"done", "returned"}

FullBlockOrder == <<"insert_write", "storage_write", "mark_clean", "post">>

IsPrefix(a, b) == Len(a) <= Len(b) /\ \A i \in 1..Len(a) : a[i] = b[i]

\* C1: a read of a whole block that was submitted after a write of that block
\* completed without error, with no later write of the block submitted
\* before the read completes, returns the bytes of that write.
C1_ReadAfterWrite ==
    \A id \in DOMAIN jobs :
        (/\ jobs[id].op = "read" /\ jobs[id].pc = "done"
         /\ jobs[id].error = "none" /\ jobs[id].expect_known)
        => jobs[id].result = jobs[id].expect

\* C2: once every write submitted for a block has completed without error,
\* the device holds the bytes of the write that was submitted last.
C2_LaterWriteWins ==
    \A b \in BlockOffsets :
        (/\ Cardinality(WriteIds(b)) >= 2
         /\ \A w \in WriteIds(b) : jobs[w].pc = "done" /\ jobs[w].error = "none")
        => \A i \in 1..block_length(b) : device[b + i - 1] = latest_write(b)

\* C3: the handler of a read, a write or a hash is only ever run by the
\* callback executor ioc_, never inside the async_* call or on a worker.
C3_HandlerOnExecutor ==
    \A id \in DOMAIN jobs :
        (jobs[id].op \in {"read", "write", "hash"} /\ jobs[id].invoked > 0)
        => jobs[id].via = "ioc"

\* C4: when nothing is queued, running or posted any more, the handler of
\* every async_* call made has been invoked exactly once.
C4_HandlerExactlyOnce ==
    /\ \A id \in DOMAIN jobs : jobs[id].invoked <= 1
    /\ AtRest => \A id \in DOMAIN jobs : jobs[id].invoked = 1

\* C5: no observer is notified without having been told to wait, and no
\* observer that was told to wait is still waiting when the engine is at rest
\* and no pool buffer is outstanding, so that no free can come any more.
C5_ObserverNotified ==
    /\ last.call = "on_disk" => ~last.spurious
    /\ (AtRest /\ held = 0 /\ m_buffer_pool.m_size = 0)
       => \A o \in Observers : ~waiting[o]

\* C6: async_write returns true exactly when the exceeded state is latched at
\* its allocation attempt: it was latched before, or usage is above the high
\* watermark or at capacity, or malloc fails. A free leaves the state latched
\* exactly when it was latched and usage is still above the low watermark.
\* With no buffer returned, the write after BUFFER_COUNT writes returns true.
C6_Hysteresis ==
    /\ last.call = "async_write" =>
          /\ last.ret = m_buffer_pool.m_exceeded_max_size
          /\ last.ret = (\/ last.exceeded_before
                         \/ last.size_before > HIGH_WATERMARK
                         \/ last.size_before >= BUFFER_COUNT
                         \/ ~last.malloc_ok)
          /\ (~last.freed /\ last.writes = BUFFER_COUNT + 1) => last.ret
    /\ last.call = "free_disk_buffer" =>
          m_buffer_pool.m_exceeded_max_size
              = (last.exceeded_before /\ m_buffer_pool.m_size > LOW_WATERMARK)

\* an async_write returns false after a free has cleared the exceeded state,
\* with the pool filled up to the high watermark again
C6_Witness ==
    /\ last.call = "async_write" /\ ~last.ret /\ last.cleared
    /\ last.size_before = HIGH_WATERMARK

\* C7 (as amended): the steps of a buffered write happen in the order cache
\* insert, storage write, mark-clean, post of the completion, and the
\* completion is posted only after all of them.
C7_WriteThroughOrder ==
    \A id \in DOMAIN jobs :
        (jobs[id].op = "write" /\ jobs[id].path = "buffered") =>
            /\ IsPrefix(jobs[id].steps, FullBlockOrder)
            /\ jobs[id].pc \in {"posted", "done"} => jobs[id].steps = FullBlockOrder

\* C7 (as stated): the order above, and when the handler of a buffered write
\* runs without error the written bytes are on the device and in the cache.
C7_Original ==
    /\ C7_WriteThroughOrder
    /\ \A id \in DOMAIN jobs :
          (/\ jobs[id].op = "write" /\ jobs[id].path = "buffered"
           /\ jobs[id].pc = "done" /\ jobs[id].error = "none")
          => jobs[id].on_device /\ jobs[id].in_cache

\* the handler of a buffered write has run after all four steps
C7_Witness ==
    \E id \in DOMAIN jobs :
        /\ jobs[id].op = "write" /\ jobs[id].path = "buffered"
        /\ jobs[id].pc = "done" /\ jobs[id].error = "none"
        /\ jobs[id].steps = FullBlockOrder

\* C8: a buffered write whose storage write reported an error is not marked
\* clean, and its handler receives the error.
C8_ErrorLeavesDirty ==
    \A id \in DOMAIN jobs :
        (/\ jobs[id].op = "write" /\ jobs[id].path = "buffered"
         /\ jobs[id].error # "none")
        => \A i \in DOMAIN jobs[id].steps : jobs[id].steps[i] # "mark_clean"

\* C9: the step of an async_write whose pool allocation fails writes the
\* caller's bytes to the device unless the storage reports an error, leaves
\* the cache as it is, posts the completion to ioc_ without running it, and
\* returns true; the handler is only ever run by ioc_.
C9_Fallback ==
    [][\A id \in DOMAIN jobs' :
          (jobs'[id].op = "write" /\ jobs'[id].path = "fallback") =>
             /\ jobs'[id].via \in {"none", "ioc"}
             /\ id \notin DOMAIN jobs =>
                   /\ m_cache' = m_cache
                   /\ jobs'[id].exceeded
                   /\ jobs'[id].invoked = 0
                   /\ ioc_' = Append(ioc_, handler_task(id))
                   /\ jobs'[id].error = "none" =>
                         \A i \in 1..jobs'[id].length :
                             device'[jobs'[id].start + i - 1] = id]_vars

\* the handler of a fallback write has run, over a block that is cached
C9_Witness ==
    \E id \in DOMAIN jobs :
        /\ jobs[id].op = "write" /\ jobs[id].path = "fallback"
        /\ jobs[id].pc = "done" /\ jobs[id].error = "none"
        /\ torrent_location(0, 0, jobs[id].start)
               \in DOMAIN m_cache[get_partition_index(
                                    torrent_location(0, 0, jobs[id].start))].m_entries

\* C10: a hash that completes without error, with no storage write during
\* it, has looked up every block of the piece once in ascending order, has
\* fed piece_size bytes, and delivers the SHA-1 of the bytes a read of each
\* block would have returned at its lookup: the cache entry, else the device.
C10_HashOfPiece ==
    \A id \in DOMAIN jobs :
        (/\ jobs[id].op = "hash" /\ jobs[id].path = "hash"
         /\ jobs[id].pc \in {"posted", "done"}
         /\ jobs[id].error = "none" /\ ~jobs[id].disturbed)
        => /\ jobs[id].blocks = [i \in 1..blocks_in_piece |-> (i - 1) * DEFAULT_BLOCK_SIZE]
           /\ Len(jobs[id].fed) = piece_size
           /\ jobs[id].result = SHA1(jobs[id].views)

\* a hash has completed over a piece with one block in the cache holding
\* written bytes and one block read from the device
C10_Witness ==
    \E id \in DOMAIN jobs :
        /\ jobs[id].op = "hash" /\ jobs[id].pc = "done"
        /\ jobs[id].error = "none" /\ ~jobs[id].disturbed
        /\ \E i \in 1..Len(jobs[id].steps) : jobs[id].steps[i] = "storage_read"
        /\ \E i \in 1..Len(jobs[id].fed) : jobs[id].fed[i] \notin {Blank, Junk}

\* a read whose range crosses the boundary between two blocks
Crossing(j) ==
    j.op = "read" /\ (j.start % DEFAULT_BLOCK_SIZE) + j.length > DEFAULT_BLOCK_SIZE

\* C11: a read that crosses a block boundary and completes without error
\* returns, for its first 16 KiB - read_offset bytes, the bytes of block loc1
\* from read_offset on, and for the rest the bytes of block loc2 from its
\* start: each part from the cache entry seen by get2, else from the device as
\* read by the task. get2 reports which of the two entries exist; with both
\* cached nothing is read from storage, with one cached exactly the other
\* block's part is read into its slot of the buffer, with none cached the
\* whole range is read in one call.
C11_UnalignedRead ==
    \A id \in DOMAIN jobs :
        LET j == jobs[id]
            block_offset == j.start - (j.start % DEFAULT_BLOCK_SIZE)
            len1 == DEFAULT_BLOCK_SIZE - (j.start - block_offset)
            c1 == j.seen_cache[1]
            c2 == j.seen_cache[2]
        IN (Crossing(j) /\ j.pc = "done" /\ j.error = "none") =>
              /\ j.ret = (IF c1 # <<>> THEN 2 ELSE 0) + (IF c2 # <<>> THEN 1 ELSE 0)
              /\ j.calls =
                    IF j.ret = 3 THEN <<>>
                    ELSE IF j.ret = 2
                    THEN <<[offset |-> block_offset + DEFAULT_BLOCK_SIZE,
                            len |-> j.length - len1, buf_offset |-> len1]>>
                    ELSE IF j.ret = 1
                    THEN <<[offset |-> j.start, len |-> len1, buf_offset |-> 0]>>
                    ELSE <<[offset |-> j.start, len |-> j.length, buf_offset |-> 0]>>
              /\ Len(j.result) = j.length
              /\ \A i \in 1..j.length :
                    j.result[i] =
                        IF i <= len1
                        THEN (IF c1 # <<>> THEN c1[i] ELSE j.seen_device[i])
                        ELSE (IF c2 # <<>> THEN c2[i - len1] ELSE j.seen_device[i])

\* a crossing read has completed with only its second block cached, holding
\* written bytes, and its first part read from the device
C11_Witness ==
    \E id \in DOMAIN jobs :
        /\ Crossing(jobs[id]) /\ jobs[id].pc = "done" /\ jobs[id].error = "none"
        /\ jobs[id].ret = 1
        /\ jobs[id].result[jobs[id].length] \notin {Blank, Junk}

(***************************************************************************)
(* Threads                                                                 *)
(***************************************************************************)
\* the cache lookup or insert_write that async_read / async_write make
\* before they return runs on the thread that called them
caller_work(j) ==
    \/ j.op = "write"
    \/ j.op = "read" /\ j.path \notin {"invalid", "no_buffer"}

\* cache or storage work done by the task posted to one of the thread pools
pool_work(j) ==
    /\ j.pool # "none"
    /\ \E i \in DOMAIN j.steps : j.steps[i] \notin {"insert_write", "post"}

\* the threads that have touched the cache or the storage for job j; the
\* threads of one pool are not told apart
work_threads(j) ==
    (IF caller_work(j) THEN {"caller"} ELSE {})
        \cup (IF pool_work(j) THEN {j.pool} ELSE {})

\* C12: all operations on a (storage, piece) do their cache and storage work
\* on one and the same worker thread (every job of the model addresses piece 0
\* of storage 0)
C12_ShardLocality ==
    Cardinality(UNION {work_threads(jobs[id]) : id \in DOMAIN jobs}) <= 1

(***************************************************************************)
(* The cache on its own: calls made directly on unified_cache              *)
(***************************************************************************)
\* the two blocks of piece 0 and the first block of piece 1, which shares
\* the partition of the first block of piece 0
CacheLocs == Locs \cup {torrent_location(0, 1, 0)}

\* a full block of one value
block(d) == [i \in 1..DEFAULT_BLOCK_SIZE |-> d]

\* the value a caller hands to insert_write; insert_read is handed what the
\* device holds, Blank
CacheData == {1}

\* cache_partition::set_max_entries
RECURSIVE evict_for_shrink(_)
evict_for_shrink(p) ==
    IF Cardinality(DOMAIN p.m_entries) > p.m_max_entries
    THEN LET r == evict_one_lru(p)
         IN IF r.evicted THEN evict_for_shrink(r.p) ELSE p
    ELSE p

partition_set_max_entries(p, new_max) ==
    evict_for_shrink([p EXCEPT !.m_max_entries = new_max])

\* the sizes unified_cache::set_max_entries is called with
CacheSizes == {NUM_PARTITIONS * PartitionEntries, 2 * NUM_PARTITIONS * PartitionEntries}

InitCache ==
    /\ threads = [t \in Threads |-> Idle]
    /\ m_buffer_pool = buffer_pool
    /\ m_cache = unified_cache(PartitionEntries)
    /\ partition_of \in [CacheLocs -> 0..(NUM_PARTITIONS - 1)]
    /\ partition_of[torrent_location(0, 0, 0)] = 0
    /\ partition_of[torrent_location(0, 1, 0)] = 0
    /\ device = [u \in 0..(PieceUnits - 1) |-> Blank]
    /\ parse_ok = TRUE
    /\ storages_ = {}
    /\ free_slots_ = <<>>
    /\ jobs = <<>>
    /\ ioc_ = <<>>
    /\ held = 0
    /\ waiting = [o \in Observers |-> FALSE]
    /\ last = NoCall

\* a thread between the lookups of a cross-partition get2 and the copy holds
\* the buffer pointers of the entries it found; an entry that is erased
\* meanwhile leaves its pointer dangling
note_freed(thr, cache) ==
    IF thr.pc \in {"get2_second", "get2_copy"}
    THEN [thr EXCEPT !.freed = [i \in DOMAIN thr.locs |->
                \/ @[i]
                \/ /\ thr.hit[i]
                   /\ thr.locs[i] \notin DOMAIN cache[get_partition_index(thr.locs[i])].m_entries]]
    ELSE thr

\* the locations cached in any partition
cached(cache) == UNION {DOMAIN cache[i].m_entries : i \in DOMAIN cache}

\* the location recorded for a call that takes none
NoLoc == torrent_location(0 - 1, 0 - 1, 0 - 1)

\* what a cache call leaves in last: the call, its location and its result,
\* whether the location was cached before the call, and the locations whose
\* entries the call erased
CacheCall(call, loc, ret, before, after) ==
    [call |-> call, loc |-> loc, ret |-> ret,
     was |-> IF loc \notin cached(before) THEN "absent"
             ELSE IF before[get_partition_index(loc)].m_entries[loc].dirty THEN "dirty"
             ELSE "clean",
     erased |-> cached(before) \ cached(after)]

cache_insert_write(loc, d, malloc_ok) ==
    /\ loc \in cached(m_cache) => malloc_ok
    /\ m_cache' = insert_write(m_cache, loc, block(d), DEFAULT_BLOCK_SIZE, malloc_ok)
    /\ last' = CacheCall("insert_write", loc, malloc_ok, m_cache, m_cache')
    /\ threads' = [t \in Threads |-> note_freed(threads[t], m_cache')]
    /\ UNCHANGED <<m_buffer_pool, partition_of, device, parse_ok, storages_,
                   free_slots_, jobs, ioc_, held, waiting>>

cache_insert_read(loc, d, malloc_ok) ==
    /\ loc \in cached(m_cache) => malloc_ok
    /\ m_cache' = insert_read(m_cache, loc, block(d), DEFAULT_BLOCK_SIZE, malloc_ok)
    /\ last' = CacheCall("insert_read", loc, malloc_ok, m_cache, m_cache')
    /\ threads' = [t \in Threads |-> note_freed(threads[t], m_cache')]
    /\ UNCHANGED <<m_buffer_pool, partition_of, device, parse_ok, storages_,
                   free_slots_, jobs, ioc_, held, waiting>>

cache_mark_clean(loc) ==
    /\ m_cache' = mark_clean(m_cache, loc)
    /\ last' = CacheCall("mark_clean", loc, TRUE, m_cache, m_cache')
    /\ UNCHANGED <<m_buffer_pool, partition_of, threads, device, parse_ok, storages_,
                   free_slots_, jobs, ioc_, held, waiting>>

cache_get(loc) ==
    /\ LET r == get(m_cache, loc)
       IN /\ m_cache' = r.cache
          /\ last' = CacheCall("get", loc, r.hit, m_cache, m_cache')
    /\ UNCHANGED <<m_buffer_pool, partition_of, threads, device, parse_ok, storages_,
                   free_slots_, jobs, ioc_, held, waiting>>

\* cache_partition::collect_dirty_blocks_for_storage: the dirty flag of every
\* entry of the storage is cleared; lists and counters are left alone
collect_dirty_blocks_for_storage(p, storage) ==
    [p EXCEPT !.m_entries = [l \in DOMAIN @ |->
        IF @[l].dirty /\ l.torrent = storage THEN [@[l] EXCEPT !.dirty = FALSE] ELSE @[l]]]

\* unified_cache::collect_dirty_blocks: partition after partition, each under
\* its own mutex; a call on another partition that falls between two of them
\* commutes with them, so the loop is taken as one step.  Every entry it
\* cleans stays counted in m_num_dirty for good, so the calls are limited to
\* states where that counter is at most MaxDrift.
cache_collect_dirty_blocks(storage) ==
    /\ \A i \in DOMAIN m_cache : m_cache[i].m_num_dirty <= MaxDrift
    /\ m_cache' = [i \in DOMAIN m_cache |-> collect_dirty_blocks_for_storage(m_cache[i], storage)]
    /\ last' = CacheCall("collect_dirty_blocks", NoLoc,
                         {l \in cached(m_cache) :
                             /\ m_cache[get_partition_index(l)].m_entries[l].dirty
                             /\ l.torrent = storage},
                         m_cache, m_cache')
    /\ UNCHANGED <<m_buffer_pool, partition_of, threads, device, parse_ok, storages_,
                   free_slots_, jobs, ioc_, held, waiting>>

\* unified_cache::set_max_entries resizes the partitions one after the other,
\* each under its own mutex: the first partition here, the others in
\* set_max_entries_next
cache_set_max_entries(new_max) ==
    /\ threads["caller"] = Idle
    /\ m_cache' = [m_cache EXCEPT ![0] =
                      partition_set_max_entries(@, new_max \div NUM_PARTITIONS)]
    /\ threads' = [threads EXCEPT !["caller"] =
                      IF NUM_PARTITIONS > 1
                      THEN [pc |-> "set_max_entries", call |-> "set_max_entries",
                            holds |-> {}, new_max |-> new_max, i |-> 1]
                      ELSE Idle]
    /\ last' = [partition |-> 0] @@ CacheCall("set_max_entries", NoLoc, new_max, m_cache, m_cache')
    /\ UNCHANGED <<m_buffer_pool, partition_of, device, parse_ok, storages_,
                   free_slots_, jobs, ioc_, held, waiting>>

set_max_entries_next ==
    /\ threads["caller"].pc = "set_max_entries"
    /\ LET c == threads["caller"]
       IN /\ m_cache' = [m_cache EXCEPT ![c.i] =
                            partition_set_max_entries(@, c.new_max \div NUM_PARTITIONS)]
          /\ threads' = [threads EXCEPT !["caller"] =
                            IF c.i + 1 < NUM_PARTITIONS THEN [c EXCEPT !.i = @ + 1] ELSE Idle]
          /\ last' = [partition |-> c.i]
                         @@ CacheCall("set_max_entries", NoLoc, c.new_max, m_cache, m_cache')
    /\ UNCHANGED <<m_buffer_pool, partition_of, device, parse_ok, storages_,
                   free_slots_, jobs, ioc_, held, waiting>>

\* the callback async_read passes to get2, for a request that starts in the
\* middle of block loc1 and is one block long; src1 / src2 are what the two
\* pointers lead to, <<>> for a null pointer
get2_callback(src1, src2) ==
    LET read_offset == DEFAULT_BLOCK_SIZE \div 2
        len1 == DEFAULT_BLOCK_SIZE - read_offset
    IN <<IF src1 # <<>> THEN slice(src1, read_offset, len1) ELSE <<>>,
         IF src2 # <<>> THEN slice(src2, 0, DEFAULT_BLOCK_SIZE - len1) ELSE <<>>>>

\* unified_cache::get2 on the two blocks of piece 0.  In one partition the
\* lookups and the callback run under that partition's mutex.  In two
\* partitions this is the first get: its callback only stores the pointer.
cache_get2 ==
    /\ threads["caller"] = Idle
    /\ LET loc1 == torrent_location(0, 0, 0)
           loc2 == torrent_location(0, 0, DEFAULT_BLOCK_SIZE)
       IN IF get_partition_index(loc1) = get_partition_index(loc2)
          THEN LET g == get2(m_cache, loc1, loc2)
                   part == get2_callback(g.buf1, g.buf2)
               IN /\ m_cache' = g.cache
                  /\ threads' = threads
                  /\ last' = [call |-> "get2", loc |-> loc1,
                              ret |-> (IF g.hit1 THEN 2 ELSE 0) + (IF g.hit2 THEN 1 ELSE 0),
                              seen |-> part, part |-> part, freed |-> <<FALSE, FALSE>>]
          ELSE LET r == get(m_cache, loc1)
               IN /\ m_cache' = r.cache
                  /\ threads' = [threads EXCEPT !["caller"] =
                                    [pc |-> "get2_second", call |-> "get2", holds |-> {},
                                     locs |-> <<loc1, loc2>>, hit |-> <<r.hit, FALSE>>,
                                     bufs |-> <<r.buffer, <<>>>>,
                                     freed |-> <<FALSE, FALSE>>]]
                  /\ last' = CacheCall("get", loc1, r.hit, m_cache, m_cache')
    /\ UNCHANGED <<m_buffer_pool, partition_of, device, parse_ok, storages_,
                   free_slots_, jobs, ioc_, held, waiting>>

\* the second get of a cross-partition get2
get2_second ==
    /\ threads["caller"].pc = "get2_second"
    /\ LET c == threads["caller"]
           r == get(m_cache, c.locs[2])
       IN /\ m_cache' = r.cache
          /\ threads' = [threads EXCEPT !["caller"] =
                            [c EXCEPT !.pc = "get2_copy", !.hit[2] = r.hit,
                                      !.bufs[2] = r.buffer]]
          /\ last' = CacheCall("get", c.locs[2], r.hit, m_cache, m_cache')
    /\ UNCHANGED <<m_buffer_pool, partition_of, device, parse_ok, storages_,
                   free_slots_, jobs, ioc_, held, waiting>>

\* f(buf1, buf2) of a cross-partition get2, called with no mutex held.  A
\* pointer to a live entry leads to the bytes the entry holds now; what a
\* dangling pointer leads to is either the old bytes or anything else.
get2_copy(reused) ==
    /\ threads["caller"].pc = "get2_copy"
    /\ LET c == threads["caller"]
           src(i) == IF ~c.hit[i] THEN <<>>
                     ELSE IF c.freed[i] THEN (IF reused THEN JunkBuffer ELSE c.bufs[i])
                     ELSE m_cache[get_partition_index(c.locs[i])].m_entries[c.locs[i]].buffer
       IN /\ last' = [call |-> "get2", loc |-> c.locs[1],
                      ret |-> (IF c.hit[1] THEN 2 ELSE 0) + (IF c.hit[2] THEN 1 ELSE 0),
                      seen |-> get2_callback(c.bufs[1], c.bufs[2]),
                      part |-> get2_callback(src(1), src(2)),
                      freed |-> c.freed]
          /\ threads' = [threads EXCEPT !["caller"] = Idle]
    /\ UNCHANGED <<m_buffer_pool, m_cache, partition_of, device, parse_ok, storages_,
                   free_slots_, jobs, ioc_, held, waiting>>

NextCache ==
    \/ \E loc \in CacheLocs, d \in CacheData, ok \in BOOLEAN : cache_insert_write(loc, d, ok)
    \/ \E loc \in CacheLocs, ok \in BOOLEAN : cache_insert_read(loc, Blank, ok)
    \/ \E loc \in CacheLocs : cache_mark_clean(loc)
    \/ \E loc \in CacheLocs : cache_get(loc)
    \/ cache_collect_dirty_blocks(0)
    \/ \E new_max \in CacheSizes : cache_set_max_entries(new_max)
    \/ set_max_entries_next
    \/ cache_get2
    \/ get2_second
    \/ \E reused \in BOOLEAN : get2_copy(reused)

SpecCache == InitCache /\ [][NextCache]_vars

\* C11 (the cached parts): the part of a crossing read that get2 found in the
\* cache consists of bytes of that block's cache entry, as found by the
\* lookup or as the entry holds them when they are copied
C11_TakenFromBlocks ==
    last.call = "get2" =>
        \A i \in 1..2 :
            last.part[i] # <<>> =>
                \/ last.part[i] = last.seen[i]
                \/ ~last.freed[i]

\* the partition of the location of the last cache call, before and after
dirty_count(p) == Cardinality({l \in DOMAIN p.m_entries : p.m_entries[l].dirty})

all_dirty(p) == \A l \in DOMAIN p.m_entries : p.m_entries[l].dirty

\* C14: an entry that a step removes from a partition (eviction during an
\* insert at capacity or during a resize) was clean; no dirty entry is ever
\* removed
C14_EvictionSafety ==
    [][\A i \in DOMAIN m_cache :
          \A loc \in DOMAIN m_cache[i].m_entries :
              loc \notin DOMAIN m_cache'[i].m_entries => ~m_cache[i].m_entries[loc].dirty]_vars

\* a resize has evicted an entry from a partition that also holds a dirty one
C14_Witness ==
    /\ last.call = "set_max_entries"
    /\ last.erased # {}
    /\ dirty_count(m_cache[last.partition]) > 0

\* C15: an insert of a new location into a partition that is at or above
\* capacity with every entry dirty (and whose buffer allocation succeeds)
\* returns true, removes nothing, leaves every entry that was there dirty and
\* with its bytes, and the partition then holds more than m_max_entries entries
C15_OverAllocation ==
    [][(/\ last'.call \in {"insert_write", "insert_read"}
        /\ last'.was = "absent"
        /\ last'.ret)
       => LET i == get_partition_index(last'.loc)
              p == m_cache[i]
              q == m_cache'[i]
          IN (Cardinality(DOMAIN p.m_entries) >= p.m_max_entries /\ all_dirty(p))
             => /\ DOMAIN q.m_entries = DOMAIN p.m_entries \cup {last'.loc}
                /\ Cardinality(DOMAIN q.m_entries) > q.m_max_entries
                /\ \A l \in DOMAIN p.m_entries : q.m_entries[l] = p.m_entries[l]
                /\ q.m_write_lru \in {<<last'.loc>> \o p.m_write_lru, p.m_write_lru}]_vars

\* a block was inserted into a partition that was full of dirty blocks
C15_Witness ==
    /\ last.call \in {"insert_write", "insert_read"}
    /\ last.was = "absent" /\ last.ret /\ last.erased = {}
    /\ LET q == m_cache[get_partition_index(last.loc)]
       IN /\ Cardinality(DOMAIN q.m_entries) > q.m_max_entries
          /\ \A l \in DOMAIN q.m_entries \ {last.loc} : q.m_entries[l].dirty

\* C16: the dirty count of the partition changes by +1 on an insert_write that
\* creates an entry or turns a clean one dirty, by 0 on an insert_write over a
\* dirty entry, by -1 on a mark_clean of a dirty entry and by 0 on a mark_clean
\* of an absent or clean one; m_num_dirty and the number of entries whose
\* dirty flag is set change alike
C16_DirtyMonotonicity ==
    [][last'.call \in {"insert_write", "mark_clean"}
       => LET i == get_partition_index(last'.loc)
              p == m_cache[i]
              q == m_cache'[i]
              expected == IF last'.call = "insert_write"
                          THEN (IF last'.was = "dirty" \/ ~last'.ret THEN 0 ELSE 1)
                          ELSE (IF last'.was = "dirty" THEN -1 ELSE 0)
          IN /\ q.m_num_dirty - p.m_num_dirty = expected
             /\ dirty_count(q) - dirty_count(p) = expected]_vars

\* a clean entry has just been overwritten by insert_write in a partition
\* that holds another dirty entry
C16_Witness ==
    /\ last.call = "insert_write" /\ last.was = "clean"
    /\ m_cache[get_partition_index(last.loc)].m_num_dirty > 1

AnyRequests ==
    {[start |-> 0, length |-> DEFAULT_BLOCK_SIZE],
     [start |-> 0, length |-> 0],
     [start |-> 0 - 1, length |-> 1],
     [start |-> 0, length |-> DEFAULT_BLOCK_SIZE + 1]}

NextFaults ==
    \/ \E ok \in BOOLEAN : new_torrent(ok)
    \/ \E r \in AnyRequests : async_read(r, TRUE)
    \/ async_write(0, NoObserver, TRUE, TRUE)
    \/ \E id \in 1..MaxOps : thread_pool_run(id)
    \/ \E id \in 1..MaxOps, io \in IoResults : read_task_read_io(id, io)
    \/ \E id \in 1..MaxOps : read_task_insert(id, TRUE)
    \/ \E id \in 1..MaxOps : read_task_post(id)
    \/ \E id \in 1..MaxOps, io \in IoResults : write_task_write_io(id, io)
    \/ \E id \in 1..MaxOps : write_task_mark_clean(id)
    \/ \E id \in 1..MaxOps : write_task_post(id)
    \/ run_handler
    \/ free_held

SpecFaults == Init /\ [][NextFaults]_vars

\* C19: an async_read with length <= 0, start < 0 or length > DEFAULT_BLOCK_SIZE
\* completes with invalid_request on the path that allocates nothing, reads
\* nothing and leaves the cache alone
C19_InvalidRequest ==
    \A id \in DOMAIN jobs :
        LET j == jobs[id]
        IN (j.op = "read" /\ (j.length <= 0 \/ j.start < 0 \/ j.length > DEFAULT_BLOCK_SIZE))
           => /\ j.pc = "done"
              /\ j.path = "invalid"
              /\ j.error = "invalid_request"
              /\ j.steps = <<>>

\* C20: a storage call whose pread / pwrite failed or came up short is
\* reported: the job carries an error, the byte count returned is what was
\* transferred, and a read is not inserted into the cache
C20_IoFailureReported ==
    \A id \in DOMAIN jobs :
        LET j == jobs[id]
        IN j.io \in {"short", "error"}
           => /\ j.error = "file_io_failed"
              /\ j.op = "read" => j.storage_ret < j.length
              /\ \A i \in DOMAIN j.steps : j.steps[i] # "insert_read"

(***************************************************************************)
(* The pool with set_settings                                              *)
(***************************************************************************)
\* the cache_size setting, in blocks: 0 (not set) and a size above the default
PoolSizes == {0, BUFFER_COUNT + (BUFFER_COUNT \div 2)}

pool_set_settings(cache_blocks) ==
    /\ m_buffer_pool' = set_settings(m_buffer_pool, cache_blocks)
    /\ last' = [last EXCEPT !.call = "set_settings",
                   !.size_before = m_buffer_pool.m_size,
                   !.exceeded_before = m_buffer_pool.m_exceeded_max_size]
    /\ UNCHANGED <<m_cache, partition_of, threads, device, parse_ok, storages_, free_slots_,
                   jobs, ioc_, held, waiting>>

NextPoolSettings ==
    \/ NextPool
    \/ \E cache_blocks \in PoolSizes : pool_set_settings(cache_blocks)

SpecPoolSettings == Init /\ [][NextPoolSettings]_vars

\* C18: whenever every buffer that was handed out has been freed, the pool's
\* usage is 0 and m_exceeded_max_size is false
C18_PoolAccounting ==
    held = 0 => /\ m_buffer_pool.m_size = 0
                /\ ~m_buffer_pool.m_exceeded_max_size

(***************************************************************************)
(* The mutexes: the pool and cache calls split at their lock, unlock and   *)
(* callback points, made by two threads                                      *)
(***************************************************************************)
\* buffer_pool::m_pool_mutex and cache_partition::m_mutex of partition i
m_pool_mutex == NUM_PARTITIONS
m_mutex(i) == i

is_locked(m) == \E t \in Threads : m \in threads[t].holds

\* buffers handed out in the fine-grained runs
MaxBuffers == 2

\* the observer lists check_watermark_recovery() may return
RecoveryObservers == {<<>>, <<"o1">>}

\* std::unique_lock<std::mutex> l(m) at the top of a call
enter(call, loc, o, m) ==
    [pc |-> "locked", call |-> call, holds |-> {m}, loc |-> loc, o |-> o, cbs |-> <<>>]

\* an l.unlock() that is left out
unlock_late(thr) == thr

\* l.unlock() before the callbacks
unlock(thr) == [thr EXCEPT !.holds = {}]

\* a thread enters allocate_buffer() or allocate_buffer(exceeded, o)
lock_allocate_buffer(t, o) ==
    /\ threads[t] = Idle /\ ~is_locked(m_pool_mutex)
    /\ o # NoObserver => (t = "caller" /\ ~waiting[o])
    /\ m_buffer_pool.m_size < MaxBuffers
    /\ threads' = [threads EXCEPT ![t] = enter("allocate_buffer", NoLoc, o, m_pool_mutex)]
    /\ UNCHANGED <<m_buffer_pool, m_cache, partition_of, device, parse_ok, storages_,
                   free_slots_, jobs, ioc_, held, waiting, last>>

\* the body of allocate_buffer; the lock is released by the return
locked_allocate_buffer(t, malloc_ok) ==
    /\ threads[t].pc = "locked" /\ threads[t].call = "allocate_buffer"
    /\ LET a == allocate_buffer_observer(m_buffer_pool, threads[t].o, malloc_ok)
       IN /\ m_buffer_pool' = a.pool
          /\ held' = IF a.buf THEN held + 1 ELSE held
          /\ waiting' = IF a.exceeded /\ threads[t].o # NoObserver
                        THEN [waiting EXCEPT ![threads[t].o] = TRUE] ELSE waiting
    /\ threads' = [threads EXCEPT ![t] = Idle]
    /\ UNCHANGED <<m_cache, partition_of, device, parse_ok, storages_, free_slots_,
                   jobs, ioc_, last>>

\* a thread enters free_disk_buffer with a buffer it was handed
lock_free_disk_buffer(t) ==
    /\ threads[t] = Idle /\ ~is_locked(m_pool_mutex)
    /\ held > 0
    /\ held' = held - 1
    /\ threads' = [threads EXCEPT ![t] = enter("free_disk_buffer", NoLoc, NoObserver,
                                                m_pool_mutex)]
    /\ UNCHANGED <<m_buffer_pool, m_cache, partition_of, device, parse_ok, storages_,
                   free_slots_, jobs, ioc_, waiting, last>>

\* free_disk_buffer and check_buffer_level up to the post
locked_free_disk_buffer(t) ==
    /\ threads[t].pc = "locked" /\ threads[t].call = "free_disk_buffer"
    /\ LET f == free_disk_buffer(m_buffer_pool)
       IN /\ m_buffer_pool' = f.pool
          /\ threads' = [threads EXCEPT ![t] =
                 IF f.posted = <<>> THEN Idle
                 ELSE [unlock(@) EXCEPT !.pc = "post", !.cbs = f.posted]]
    /\ UNCHANGED <<m_cache, partition_of, device, parse_ok, storages_, free_slots_,
                   jobs, ioc_, held, waiting, last>>

\* post(m_ios, watermark_callback) at the end of check_buffer_level
post_watermark_callback(t) ==
    /\ threads[t].pc = "post"
    /\ Len(ioc_) < MaxPending
    /\ ioc_' = ioc_ \o threads[t].cbs
    /\ threads' = [threads EXCEPT ![t] = Idle]
    /\ UNCHANGED <<m_buffer_pool, m_cache, partition_of, device, parse_ok, storages_,
                   free_slots_, jobs, held, waiting, last>>

\* a thread enters a call of one cache partition: async_read and async_write
\* call get and insert_write on the caller's thread, the pool tasks call
\* insert_read and mark_clean
lock_partition(t, call, loc) ==
    /\ threads[t] = Idle /\ ~is_locked(m_mutex(get_partition_index(loc)))
    /\ t = "caller" <=> call \in {"get", "insert_write"}
    /\ threads' = [threads EXCEPT ![t] = enter(call, loc, NoObserver,
                                                m_mutex(get_partition_index(loc)))]
    /\ UNCHANGED <<m_buffer_pool, m_cache, partition_of, device, parse_ok, storages_,
                   free_slots_, jobs, ioc_, held, waiting, last>>

\* cache_partition::insert up to its return or to the observer loop
locked_insert(t, malloc_ok, cbs) ==
    /\ threads[t].pc = "locked" /\ threads[t].call \in {"insert_write", "insert_read"}
    /\ LET loc == threads[t].loc
           idx == get_partition_index(loc)
           p == m_cache[idx]
           p1 == insert(p, loc, block(1), DEFAULT_BLOCK_SIZE,
                        threads[t].call = "insert_write", malloc_ok)
           is_new == loc \notin DOMAIN p.m_entries
           did_evict == is_new /\ DOMAIN p.m_entries \ DOMAIN p1.m_entries # {}
           observers_to_notify == IF did_evict THEN cbs ELSE <<>>
       IN /\ ~did_evict => cbs = <<>>
          /\ ~is_new => malloc_ok
          /\ m_cache' = [m_cache EXCEPT ![idx] = p1]
          /\ threads' = [threads EXCEPT ![t] =
                 IF ~is_new \/ ~malloc_ok \/ observers_to_notify = <<>> THEN Idle
                 ELSE [unlock(@) EXCEPT !.pc = "on_disk", !.cbs = observers_to_notify]]
    /\ UNCHANGED <<m_buffer_pool, partition_of, device, parse_ok, storages_, free_slots_,
                   jobs, ioc_, held, waiting, last>>

\* cache_partition::mark_clean up to its return or to the observer loop
locked_mark_clean(t, cbs) ==
    /\ threads[t].pc = "locked" /\ threads[t].call = "mark_clean"
    /\ LET loc == threads[t].loc
           idx == get_partition_index(loc)
           p == m_cache[idx]
           found == loc \in DOMAIN p.m_entries /\ p.m_entries[loc].dirty
       IN /\ ~found => cbs = <<>>
          /\ m_cache' = [m_cache EXCEPT ![idx] = partition_mark_clean(p, loc)]
          /\ threads' = [threads EXCEPT ![t] =
                 IF ~found \/ cbs = <<>> THEN Idle
                 ELSE [unlock(@) EXCEPT !.pc = "on_disk", !.cbs = cbs]]
    /\ UNCHANGED <<m_buffer_pool, partition_of, device, parse_ok, storages_, free_slots_,
                   jobs, ioc_, held, waiting, last>>

\* cache_partition::get as called by async_read: on a hit the call returns,
\* which releases the lock, and async_read goes on to its handler
locked_get(t) ==
    /\ threads[t].pc = "locked" /\ threads[t].call = "get"
    /\ LET idx == get_partition_index(threads[t].loc)
           r == partition_get(m_cache[idx], threads[t].loc)
       IN /\ m_cache' = [m_cache EXCEPT ![idx] = r.p]
          /\ threads' = [threads EXCEPT ![t] =
                 IF r.hit THEN [@ EXCEPT !.pc = "handler", !.holds = {}] ELSE Idle]
    /\ UNCHANGED <<m_buffer_pool, partition_of, device, parse_ok, storages_, free_slots_,
                   jobs, ioc_, held, waiting, last>>

\* the loop over the observers of a cache call: obs->on_disk()
notify_on_disk(t) ==
    /\ threads[t].pc = "on_disk"
    /\ LET cbs == threads[t].cbs
       IN last' = [last EXCEPT !.call = "on_disk", !.cbs = cbs,
                      !.exceeded = m_buffer_pool.m_exceeded_max_size,
                      !.spurious = \E i \in DOMAIN cbs : ~waiting[cbs[i]]]
    /\ threads' = [threads EXCEPT ![t] = Idle]
    /\ UNCHANGED <<m_buffer_pool, m_cache, partition_of, device, parse_ok, storages_,
                   free_slots_, jobs, ioc_, held, waiting>>

\* the handler async_read calls on a cache hit
inline_handler(t) ==
    /\ threads[t].pc = "handler"
    /\ threads' = [threads EXCEPT ![t] = Idle]
    /\ UNCHANGED <<m_buffer_pool, m_cache, partition_of, device, parse_ok, storages_,
                   free_slots_, jobs, ioc_, held, waiting, last>>

\* the caller's thread runs ioc_ between its calls
ioc_run_one ==
    /\ threads["caller"] = Idle
    /\ run_watermark_callback

NextLocks ==
    \/ \E t \in Threads, o \in Observers \cup {NoObserver} : lock_allocate_buffer(t, o)
    \/ \E t \in Threads, ok \in BOOLEAN : locked_allocate_buffer(t, ok)
    \/ \E t \in Threads : lock_free_disk_buffer(t)
    \/ \E t \in Threads : locked_free_disk_buffer(t)
    \/ \E t \in Threads : post_watermark_callback(t)
    \/ \E t \in Threads, loc \in Locs,
          call \in {"insert_write", "insert_read", "mark_clean", "get"} :
            lock_partition(t, call, loc)
    \/ \E t \in Threads, ok \in BOOLEAN, cbs \in RecoveryObservers : locked_insert(t, ok, cbs)
    \/ \E t \in Threads, cbs \in RecoveryObservers : locked_mark_clean(t, cbs)
    \/ \E t \in Threads : locked_get(t)
    \/ \E t \in Threads : notify_on_disk(t)
    \/ \E t \in Threads : inline_handler(t)
    \/ ioc_run_one

SpecLocks == Init /\ [][NextLocks]_vars

\* the positions of a thread at which it posts or invokes a callback
CallbackPcs == {"post", "on_disk", "handler"}

\* C13: a thread that is about to post the watermark callback, to call on_disk
\* or to call a completion handler holds neither the pool mutex nor a
\* partition mutex; the thread that runs a posted callback holds none either;
\* and the pool's observer list only changes in a step of a thread that holds
\* the pool mutex, so the observers are detached under the lock and woken
\* after it
C13_NoCallbackUnderLock ==
    [][/\ \A t \in Threads : threads'[t].pc \in CallbackPcs => threads'[t].holds = {}
       /\ (ioc_ # <<>> /\ ioc_' = Tail(ioc_)) => threads["caller"].holds = {}
       /\ m_buffer_pool'.m_observers # m_buffer_pool.m_observers
            => \E t \in Threads : /\ m_pool_mutex \in threads[t].holds
                                  /\ threads'[t].holds = {}]_vars

\* a thread is in the observer loop of a cache call while the other thread
\* already holds the mutex of the same partition
C13_Witness ==
    \E t \in Threads, u \in Threads :
        /\ threads[t].pc = "on_disk" /\ threads[t].cbs # <<>>
        /\ threads[u].pc = "locked"
        /\ threads[u].holds = {m_mutex(get_partition_index(threads[t].loc))}

(***************************************************************************)
(* The layout: files named by the hexadecimal device offset of their first  *)
(* byte, and the storage calls that slice a piece range over them           *)
(***************************************************************************)
\* file names as digit strings: "0", "10", "20"
LayoutNames == << <<0>>, <<1, 0>>, <<2, 0>> >>
LayoutSizes == {1, 2, 3}
LayoutPieceLength == 4

\* lt::file_storage objects: three files in order
Layouts ==
    {[i \in 1..3 |-> [name |-> LayoutNames[i], size |-> s[i]]] : s \in [1..3 -> LayoutSizes]}

\* std::stoll(file_name, 0, 16) / sscanf(filename, "%llx", ...)
RECURSIVE stoll16(_)
stoll16(name) ==
    IF name = <<>> THEN 0
    ELSE stoll16(SubSeq(name, 1, Len(name) - 1)) * 16 + name[Len(name)]

\* file_storage::file_offset: the torrent offset of the first byte of file i
RECURSIVE file_offset(_, _)
file_offset(fs, i) ==
    IF i = 1 THEN 0 ELSE file_offset(fs, i - 1) + fs[i - 1].size

total_size(fs) == file_offset(fs, Len(fs)) + fs[Len(fs)].size

\* file_storage::file_index_at_offset
file_index_at_offset(fs, off) ==
    CHOOSE i \in DOMAIN fs : file_offset(fs, i) <= off /\ off < file_offset(fs, i) + fs[i].size

\* the loop of file_storage::map_block from file i on
RECURSIVE map_block_from(_, _, _, _)
map_block_from(fs, i, in_file, size) ==
    IF size <= 0 \/ i > Len(fs) THEN <<>>
    ELSE IF in_file < fs[i].size
    THEN LET n == Min(fs[i].size - in_file, size)
         IN <<[file_index |-> i, offset |-> in_file, size |-> n]>>
              \o map_block_from(fs, i + 1, 0, size - n)
    ELSE map_block_from(fs, i + 1, in_file - fs[i].size, size)

\* file_storage::map_block
map_block(fs, piece, offset, length) ==
    LET target == piece * LayoutPieceLength + offset
        i == file_index_at_offset(fs, target)
    IN map_block_from(fs, i, target - file_offset(fs, i), length)

\* a buffer cursor that stays where it is
advance_stuck(cursor, size) == cursor

\* buffer += file_slice.size
advance(cursor, size) == cursor + size

\* the loop of partition_storage::write / read over the slices: the positional
\* calls it issues, each with the device offset, the size and the first buffer
\* index it uses
RECURSIVE slice_calls(_, _, _)
slice_calls(fs, slices, cursor) ==
    IF slices = <<>> THEN <<>>
    ELSE LET file_slice == Head(slices)
             partition_offset == stoll16(fs[file_slice.file_index].name) + file_slice.offset
         IN <<[offset |-> partition_offset, size |-> file_slice.size, cursor |-> cursor]>>
              \o slice_calls(fs, Tail(slices), advance(cursor, file_slice.size))

\* partition_storage::write / read
partition_storage_calls(fs, piece, offset, length) ==
    slice_calls(fs, map_block(fs, piece, offset, length), 1)

\* the while loop of raw_storage::writev / readv
RECURSIVE raw_storage_loop(_, _, _, _, _, _)
raw_storage_loop(fs, data_len, data_ptr, cur_offset, fd_offset, remain_len) ==
    IF data_len <= 0 THEN <<>>
    ELSE IF data_len > remain_len
    THEN LET index == file_index_at_offset(fs, cur_offset + remain_len)
         IN <<[offset |-> fd_offset, size |-> remain_len, cursor |-> data_ptr]>>
              \o raw_storage_loop(fs, data_len - remain_len, data_ptr + remain_len,
                                  cur_offset + remain_len, stoll16(fs[index].name),
                                  fs[index].size)
    ELSE <<[offset |-> fd_offset, size |-> data_len, cursor |-> data_ptr]>>

\* raw_storage::writev / readv up to the loop
raw_storage_calls(fs, piece, offset, length) ==
    LET cur_offset == piece * LayoutPieceLength + offset
        index == file_index_at_offset(fs, cur_offset)
        device_offset == stoll16(fs[index].name)
        piece_sum == file_offset(fs, index)
    IN raw_storage_loop(fs, length, 1, cur_offset,
                        device_offset + cur_offset - piece_sum,
                        fs[index].size - (cur_offset - piece_sum))

\* pwrite(fd, buffer, size, offset) for every call of a list
RECURSIVE pwrite_all(_, _, _)
pwrite_all(dev, buffer, calls) ==
    IF calls = <<>> THEN dev
    ELSE LET c == Head(calls)
         IN pwrite_all([u \in DOMAIN dev |->
                            IF c.offset <= u /\ u < c.offset + c.size
                            THEN buffer[c.cursor + (u - c.offset)] ELSE dev[u]],
                       buffer, Tail(calls))

\* pread(fd, buffer, size, offset) for every call of a list
RECURSIVE pread_all(_, _, _)
pread_all(dev, buffer, calls) ==
    IF calls = <<>> THEN buffer
    ELSE LET c == Head(calls)
         IN pread_all(dev, [k \in DOMAIN buffer |->
                                IF c.cursor <= k /\ k < c.cursor + c.size
                                THEN dev[c.offset + (k - c.cursor)] ELSE buffer[k]],
                      Tail(calls))

\* the requests on a layout: a range inside one piece and inside the torrent
LayoutRequests(fs) ==
    {r \in [piece : 0..2, offset : 0..(LayoutPieceLength - 1), length : 1..LayoutPieceLength] :
        /\ r.offset + r.length <= LayoutPieceLength
        /\ r.piece * LayoutPieceLength + r.offset + r.length <= total_size(fs)}

\* the bytes a caller writes: every byte of the buffer is different
LayoutBases == {10, 20}
LayoutDevice == 0..(stoll16(LayoutNames[3]) + 3)

InitLayout ==
    /\ threads = [t \in Threads |-> Idle]
    /\ m_buffer_pool = buffer_pool
    /\ m_cache = unified_cache(PartitionEntries)
    /\ partition_of = [loc \in Locs |-> 0]
    /\ device = [u \in LayoutDevice |-> Blank]
    /\ parse_ok = TRUE
    /\ storages_ = {}
    /\ free_slots_ = <<>>
    /\ jobs = <<>>
    /\ ioc_ = <<>>
    /\ held = 0
    /\ waiting = [o \in Observers |-> FALSE]
    /\ \E fs \in Layouts, base \in LayoutBases :
         \E r \in LayoutRequests(fs) :
            last = [call |-> "none", fs |-> fs, r |-> r,
                    buffer |-> [k \in 1..r.length |-> base + k],
                    calls |-> <<>>, out |-> <<>>]

\* a write of the request through partition_storage or through raw_storage
layout_write(calls, name) ==
    /\ last.call = "none"
    /\ device' = pwrite_all(device, last.buffer, calls)
    /\ last' = [last EXCEPT !.call = name, !.calls = calls]
    /\ UNCHANGED <<m_buffer_pool, m_cache, partition_of, threads, parse_ok, storages_,
                   free_slots_, jobs, ioc_, held, waiting>>

partition_storage_write ==
    layout_write(partition_storage_calls(last.fs, last.r.piece, last.r.offset, last.r.length),
                 "write")

raw_storage_writev ==
    layout_write(raw_storage_calls(last.fs, last.r.piece, last.r.offset, last.r.length),
                 "writev")

\* a read of the range that was written, into a buffer of junk
layout_read(calls, name) ==
    /\ last.call \in {"write", "writev"}
    /\ last' = [last EXCEPT !.call = name, !.calls = calls,
                   !.out = pread_all(device, [k \in 1..last.r.length |-> Junk], calls)]
    /\ UNCHANGED <<m_buffer_pool, m_cache, partition_of, threads, device, parse_ok,
                   storages_, free_slots_, jobs, ioc_, held, waiting>>

partition_storage_read ==
    layout_read(partition_storage_calls(last.fs, last.r.piece, last.r.offset, last.r.length),
                "read")

raw_storage_readv ==
    layout_read(raw_storage_calls(last.fs, last.r.piece, last.r.offset, last.r.length),
                "readv")

NextLayout ==
    \/ partition_storage_write
    \/ raw_storage_writev
    \/ partition_storage_read
    \/ raw_storage_readv

SpecLayout == InitLayout /\ [][NextLayout]_vars

\* the files a range of the torrent touches, in file order, and for each the
\* positional call the layout asks for
touched_files(fs, g, length) ==
    {i \in DOMAIN fs : file_offset(fs, i) < g + length /\ g < file_offset(fs, i) + fs[i].size}

expected_call(fs, i, g, length) ==
    LET first == IF g > file_offset(fs, i) THEN g ELSE file_offset(fs, i)
        past == Min(g + length, file_offset(fs, i) + fs[i].size)
    IN [offset |-> stoll16(fs[i].name) + (first - file_offset(fs, i)),
        size |-> past - first,
        cursor |-> first - g + 1]

expected_calls(fs, piece, offset, length) ==
    LET g == piece * LayoutPieceLength + offset
        files == touched_files(fs, g, length)
        lo == CHOOSE i \in files : \A j \in files : i <= j
    IN [k \in 1..Cardinality(files) |-> expected_call(fs, lo + k - 1, g, length)]

\* C21: a storage write or read of a range is one positional call per file the
\* range touches, in file order, at hex(file name) + offset inside the file,
\* of the size of the slice and taking the buffer from where the previous
\* slice ended; the device then holds the written bytes at those offsets and
\* the read gives back what was written
C21_LayoutSlicing ==
    last.call # "none" =>
        LET want == expected_calls(last.fs, last.r.piece, last.r.offset, last.r.length)
        IN /\ last.calls = want
           /\ \A k \in DOMAIN want : \A d \in 0..(want[k].size - 1) :
                 device[want[k].offset + d] = last.buffer[want[k].cursor + d]
           /\ last.call \in {"read", "readv"} => last.out = last.buffer

\* files of 2 bytes named 0, 10, 20 and pieces of 4: the whole of piece 0 went
\* out as 2 bytes at 0x0 and 2 bytes at 0x10
C21_Witness ==
    /\ last.call \in {"write", "writev"}
    /\ \A i \in DOMAIN last.fs : last.fs[i].size = 2
    /\ last.r = [piece |-> 0, offset |-> 0, length |-> 4]
    /\ last.calls = <<[offset |-> 0, size |-> 2, cursor |-> 1],
                      [offset |-> 16, size |-> 2, cursor |-> 3]>>
    /\ device[16] = last.buffer[3]

(***************************************************************************)
(* Shutdown: abort and the destructor                                      *)
(***************************************************************************)
\* the pool task of a job has run to its end (a job without a task has none)
task_finished(j) == j.pool = "none" \/ j.pc \in {"posted", "done", "returned"}

\* raw_disk_io::abort: the body is empty, the call returns at once
abort(wait) ==
    /\ last' = [last EXCEPT !.call = "abort", !.ret = wait]
    /\ UNCHANGED <<m_buffer_pool, m_cache, partition_of, threads, device, parse_ok, storages_,
                   free_slots_, jobs, ioc_, held, waiting>>

\* raw_disk_io::~raw_disk_io returns: the three join() calls have returned,
\* which they do when no task is queued or running
raw_disk_io_destructor ==
    /\ \A id \in DOMAIN jobs : task_finished(jobs[id])
    /\ last' = [last EXCEPT !.call = "~raw_disk_io"]
    /\ UNCHANGED <<m_buffer_pool, m_cache, partition_of, threads, device, parse_ok, storages_,
                   free_slots_, jobs, ioc_, held, waiting>>

\* the object has not been destroyed
alive == last.call # "~raw_disk_io"

NextShutdown ==
    \/ alive /\ new_torrent(TRUE)
    \/ alive /\ async_read([start |-> 0, length |-> DEFAULT_BLOCK_SIZE], TRUE)
    \/ alive /\ async_write(0, NoObserver, TRUE, TRUE)
    \/ alive /\ async_hash(TRUE)
    \/ alive /\ \E id \in 1..MaxOps : thread_pool_run(id)
    \/ alive /\ \E id \in 1..MaxOps : read_task_read(id)
    \/ alive /\ \E id \in 1..MaxOps : read_task_insert(id, TRUE)
    \/ alive /\ \E id \in 1..MaxOps : read_task_post(id)
    \/ alive /\ \E id \in 1..MaxOps : write_task_write(id)
    \/ alive /\ \E id \in 1..MaxOps : write_task_mark_clean(id)
    \/ alive /\ \E id \in 1..MaxOps : write_task_post(id)
    \/ alive /\ \E id \in 1..MaxOps : hash_task_get(id)
    \/ alive /\ \E id \in 1..MaxOps : hash_task_read(id)
    \/ alive /\ \E id \in 1..MaxOps : hash_task_post(id)
    \/ alive /\ run_handler
    \/ alive /\ free_held
    \/ alive /\ \E wait \in BOOLEAN : abort(wait)
    \/ alive /\ raw_disk_io_destructor

SpecShutdown == Init /\ [][NextShutdown]_vars

\* C22: when abort(true) or the destructor has returned, the task of every
\* read, write and hash submitted before has run to its end
C22_GracefulShutdown ==
    (last.call = "~raw_disk_io" \/ (last.call = "abort" /\ last.ret))
        => \A id \in DOMAIN jobs : task_finished(jobs[id])

\* the part of C22 about the destructor alone
C22_DestructorJoins ==
    last.call = "~raw_disk_io" => \A id \in DOMAIN jobs : task_finished(jobs[id])

(***************************************************************************)
(* Cache entries against the device                                        *)
(***************************************************************************)
\* the valid bytes of the entry at loc are the bytes the device holds there
equals_device(e, loc) ==
    \A i \in 1..e.length : e.buffer[i] = device[loc.offset + i - 1]

\* only writes that went through a pool buffer have been submitted
only_buffered_writes ==
    \A id \in DOMAIN jobs : jobs[id].op = "write" /\ jobs[id].path = "buffered"

\* C23: a cache entry whose dirty flag is false holds the bytes stored on the
\* device for its block, also when two writes to the block overlap; stated
\* for runs of buffered writes on a layout that parses, where every storage
\* write reaches the device and nothing else fills the cache
C23_CleanEqualsDevice ==
    (parse_ok /\ only_buffered_writes) => \A idx \in DOMAIN m_cache : \A loc \in DOMAIN m_cache[idx].m_entries :
        ~m_cache[idx].m_entries[loc].dirty => equals_device(m_cache[idx].m_entries[loc], loc)

(***************************************************************************)
(* Reads of part of a block, and torrents that come and go                 *)
(***************************************************************************)
\* the whole first block, its first unit alone, and its second unit alone
SubBlockRequests ==
    {[start |-> 0, length |-> DEFAULT_BLOCK_SIZE],
     [start |-> 0, length |-> DEFAULT_BLOCK_SIZE - 1],
     [start |-> DEFAULT_BLOCK_SIZE - 1, length |-> 1]}

\* raw_disk_io::remove_torrent, called when no task of the torrent is left
remove_torrent(idx) ==
    /\ idx \in storages_
    /\ \A id \in DOMAIN jobs : jobs[id].pc = "done"
    /\ ioc_ = <<>>
    /\ storages_' = storages_ \ {idx}
    /\ free_slots_' = Append(free_slots_, idx)
    /\ jobs' = [id \in DOMAIN jobs |-> [jobs[id] EXCEPT !.removed = TRUE]]
    /\ UNCHANGED <<m_buffer_pool, m_cache, partition_of, threads, device, parse_ok, ioc_,
                   held, waiting, last>>

NextReads ==
    \/ new_torrent(TRUE)
    \/ remove_torrent(0)
    \/ \E r \in SubBlockRequests : async_read(r, TRUE)
    \/ async_write(0, NoObserver, TRUE, TRUE)
    \/ \E id \in 1..MaxOps : thread_pool_run(id)
    \/ \E id \in 1..MaxOps : read_task_read(id)
    \/ \E id \in 1..MaxOps : read_task_insert(id, TRUE)
    \/ \E id \in 1..MaxOps : read_task_post(id)
    \/ \E id \in 1..MaxOps : write_task_write(id)
    \/ \E id \in 1..MaxOps : write_task_mark_clean(id)
    \/ \E id \in 1..MaxOps : write_task_post(id)
    \/ run_handler
    \/ free_held

SpecReads == Init /\ [][NextReads]_vars

\* C24: an async_read whose start is not a multiple of the block size never
\* calls insert_read, so it creates or overwrites no cache entry
C24_UnalignedNoInsert ==
    \A id \in DOMAIN jobs :
        (jobs[id].op = "read" /\ jobs[id].start % DEFAULT_BLOCK_SIZE # 0)
            => \A i \in DOMAIN jobs[id].steps : jobs[id].steps[i] # "insert_read"

\* the part of C24 that holds: a read that crosses a block boundary never
\* calls insert_read
C24_CrossingNoInsert ==
    \A id \in DOMAIN jobs :
        (jobs[id].op = "read"
           /\ (jobs[id].start % DEFAULT_BLOCK_SIZE) + jobs[id].length > DEFAULT_BLOCK_SIZE)
            => \A i \in DOMAIN jobs[id].steps : jobs[id].steps[i] # "insert_read"

\* the location a read job fills after a miss
fill_location(j) == torrent_location(0, 0, j.start - (j.start % DEFAULT_BLOCK_SIZE))

\* C25: the insert_read of a read miss that finds a dirty entry at its
\* location leaves the bytes and the dirty flag of that entry alone
C25_FillKeepsWrite ==
    [][\A id \in DOMAIN jobs :
          (jobs[id].pc = "insert_read" /\ jobs'[id].pc # "insert_read") =>
              LET loc == fill_location(jobs[id])
                  idx == get_partition_index(loc)
              IN (loc \in DOMAIN m_cache[idx].m_entries /\ m_cache[idx].m_entries[loc].dirty)
                   => /\ m_cache'[idx].m_entries[loc].dirty
                      /\ m_cache'[idx].m_entries[loc].buffer
                            = m_cache[idx].m_entries[loc].buffer]_vars

\* a job of the torrent that is registered now which can have put the block
\* of read id into the cache before the read was submitted
filled_before(id) ==
    \E w \in 1..(id - 1) :
        /\ ~jobs[w].removed
        /\ fill_location(jobs[w]) = fill_location(jobs[id])
        /\ \/ jobs[w].op = "write"
           \/ jobs[w].op = "read" /\ jobs[w].path = "miss"

\* C26: a read on a torrent is served from the cache only if a job of that
\* torrent put the block there; in particular not from an entry that a
\* torrent removed from the same slot left behind
C26_NoStaleAcrossReuse ==
    \A id \in DOMAIN jobs :
        (jobs[id].op = "read" /\ ~jobs[id].removed /\ jobs[id].path = "hit")
            => filled_before(id)

\* C27: a read that is served from the cache gets no byte from beyond the
\* valid length of the entry, which in a cache buffer is uninitialised memory
C27_HitWithinLength ==
    \A id \in DOMAIN jobs :
        (jobs[id].op = "read" /\ jobs[id].path = "hit")
            => \A i \in DOMAIN jobs[id].result : jobs[id].result[i] # Junk

\* C28: two block locations of the same storage and piece have the same
\* partition index, whatever their offsets
C28_ShardByPiece ==
    \A l1 \in DOMAIN partition_of : \A l2 \in DOMAIN partition_of :
        (l1.torrent = l2.torrent /\ l1.piece = l2.piece)
            => get_partition_index(l1) = get_partition_index(l2)

\* C29: after an insert of a new location the partition holds more than
\* max_entries entries only if every entry other than the new one is dirty:
\* the eviction loop of the insert gives up only when no clean entry is left
C29_EvictionFailsOnlyDirty ==
    (last.call \in {"insert_write", "insert_read"} /\ last.was = "absent" /\ last.ret) =>
        LET p == m_cache[get_partition_index(last.loc)]
        IN Cardinality(DOMAIN p.m_entries) > p.m_max_entries
             => \A loc \in DOMAIN p.m_entries \ {last.loc} : p.m_entries[loc].dirty

(***************************************************************************)
(* The order of eviction against the order of use                          *)
(***************************************************************************)
\* entries per partition in the runs that compare eviction with use
EvictEntries == 2

\* last also keeps the cached locations in the order of their last use (get
\* hit or insert), most recent first: after the call, and before it
InitEvict ==
    /\ threads = [t \in Threads |-> Idle]
    /\ m_buffer_pool = buffer_pool
    /\ m_cache = unified_cache(EvictEntries)
    /\ partition_of \in [CacheLocs -> 0..(NUM_PARTITIONS - 1)]
    /\ partition_of[torrent_location(0, 0, 0)] = 0
    /\ device = [u \in 0..(PieceUnits - 1) |-> Blank]
    /\ parse_ok = TRUE
    /\ storages_ = {}
    /\ free_slots_ = <<>>
    /\ jobs = <<>>
    /\ ioc_ = <<>>
    /\ held = 0
    /\ waiting = [o \in Observers |-> FALSE]
    /\ last = [used |-> <<>>, before |-> <<>>] @@ CacheCall("none", NoLoc, TRUE, m_cache, m_cache)

\* the order of use after a call that used loc (or none, if uses is FALSE)
\* and left the locations of cache cached
use_order(order, loc, uses, cache) ==
    LET kept == SelectSeq(order, LAMBDA x : x \in cached(cache) /\ (uses => x # loc))
    IN IF uses /\ loc \in cached(cache) THEN <<loc>> \o kept ELSE kept

\* one call of the cache on loc that leaves it as cache
used_call(call, loc, uses, cache) ==
    /\ m_cache' = cache
    /\ last' = [used |-> use_order(last.used, loc, uses, cache), before |-> last.used]
                  @@ CacheCall(call, loc, TRUE, m_cache, cache)
    /\ UNCHANGED <<m_buffer_pool, partition_of, threads, device, parse_ok, storages_,
                   free_slots_, jobs, ioc_, held, waiting>>

used_insert_write(loc) ==
    used_call("insert_write", loc, TRUE,
              insert_write(m_cache, loc, block(1), DEFAULT_BLOCK_SIZE, TRUE))

used_insert_read(loc) ==
    used_call("insert_read", loc, TRUE,
              insert_read(m_cache, loc, block(Blank), DEFAULT_BLOCK_SIZE, TRUE))

used_mark_clean(loc) ==
    used_call("mark_clean", loc, FALSE, mark_clean(m_cache, loc))

used_get(loc) ==
    used_call("get", loc, TRUE, get(m_cache, loc).cache)

NextEvict ==
    \/ \E loc \in CacheLocs : used_insert_write(loc)
    \/ \E loc \in CacheLocs : used_insert_read(loc)
    \/ \E loc \in CacheLocs : used_mark_clean(loc)
    \/ \E loc \in CacheLocs : used_get(loc)

SpecEvict == InitEvict /\ [][NextEvict]_vars

\* the place of loc in an order of use, 1 being the most recent
place(order, loc) == CHOOSE i \in DOMAIN order : order[i] = loc

\* C30: an entry erased by a call was, before the call, used less recently
\* than every clean entry of its partition that the call left in the cache
C30_EvictionOrder ==
    \A e \in last.erased :
        LET p == m_cache[get_partition_index(e)]
        IN \A c \in DOMAIN p.m_entries :
              (c # last.loc /\ ~p.m_entries[c].dirty)
                  => place(last.before, c) < place(last.before, e)

(***************************************************************************)
(* Collecting dirty blocks: entries of two storages                        *)
(***************************************************************************)
\* two blocks of storage 0 and one block of storage 1
DirtyLocs == Locs \cup {torrent_location(1, 0, 0)}

StorageIds == {0, 1}

\* the cached locations of a storage whose entries are dirty
dirty_of(cache, storage) ==
    {l \in cached(cache) : l.torrent = storage /\ cache[partition_of[l]].m_entries[l].dirty}

\* cache_partition::collect_dirty_blocks: the dirty flag of every entry of
\* the partition is cleared, whatever its storage
partition_collect_dirty_blocks(p) ==
    [p EXCEPT !.m_entries = [l \in DOMAIN @ |->
        IF @[l].dirty THEN [@[l] EXCEPT !.dirty = FALSE] ELSE @[l]]]

\* a collection that returns the dirty locations and leaves their flags set
collect_dirty_blocks_keep(cache, storage) ==
    [ret |-> dirty_of(cache, storage), cache |-> cache]

\* unified_cache::collect_dirty_blocks: the locations returned and the cache
\* afterwards
collect_dirty_blocks(cache, storage) ==
    [ret |-> dirty_of(cache, storage),
     cache |-> [i \in DOMAIN cache |-> collect_dirty_blocks_for_storage(cache[i], storage)]]

\* unified_cache::get_dirty_count: every partition's collect_dirty_blocks is
\* called, and the locations of the storage among its result are counted
get_dirty_count(cache, storage) ==
    [ret |-> Cardinality(dirty_of(cache, storage)),
     cache |-> [i \in DOMAIN cache |-> partition_collect_dirty_blocks(cache[i])]]

\* last keeps, besides the call, the storage it was made for, the locations
\* that a collect_dirty_blocks returned and no insert_write has been made to
\* since, and the locations that the collections before this call returned
InitDirty ==
    /\ threads = [t \in Threads |-> Idle]
    /\ m_buffer_pool = buffer_pool
    /\ m_cache = unified_cache(PartitionEntries)
    /\ partition_of \in [DirtyLocs -> 0..(NUM_PARTITIONS - 1)]
    /\ partition_of[torrent_location(0, 0, 0)] = 0
    /\ device = [u \in 0..(PieceUnits - 1) |-> Blank]
    /\ parse_ok = TRUE
    /\ storages_ = {}
    /\ free_slots_ = <<>>
    /\ jobs = <<>>
    /\ ioc_ = <<>>
    /\ held = 0
    /\ waiting = [o \in Observers |-> FALSE]
    /\ last = [storage |-> 0, collected |-> {}, ever |-> {}]
                 @@ CacheCall("none", NoLoc, {}, m_cache, m_cache)

\* one call of the cache that returns ret and leaves the cache as cache
dirty_call(call, loc, storage, ret, cache, collected) ==
    /\ m_cache' = cache
    /\ last' = [storage |-> storage, collected |-> collected,
                 ever |-> IF last.call = "collect_dirty_blocks" THEN last.ever \cup last.ret
                          ELSE last.ever]
                  @@ CacheCall(call, loc, ret, m_cache, cache)
    /\ UNCHANGED <<m_buffer_pool, partition_of, threads, device, parse_ok, storages_,
                   free_slots_, jobs, ioc_, held, waiting>>

dirty_insert_write(loc) ==
    dirty_call("insert_write", loc, loc.torrent, {},
               insert_write(m_cache, loc, block(1), DEFAULT_BLOCK_SIZE, TRUE),
               last.collected \ {loc})

dirty_insert_read(loc) ==
    dirty_call("insert_read", loc, loc.torrent, {},
               insert_read(m_cache, loc, block(Blank), DEFAULT_BLOCK_SIZE, TRUE),
               last.collected)

dirty_mark_clean(loc) ==
    dirty_call("mark_clean", loc, loc.torrent, {}, mark_clean(m_cache, loc), last.collected)

dirty_get(loc) ==
    dirty_call("get", loc, loc.torrent, {}, get(m_cache, loc).cache, last.collected)

\* every entry a collection cleans stays counted in m_num_dirty, so the
\* collections are limited to states where that counter is at most MaxDrift + 1
dirty_collect_dirty_blocks(storage) ==
    /\ \A i \in DOMAIN m_cache : m_cache[i].m_num_dirty <= MaxDrift + 1
    /\ LET r == collect_dirty_blocks(m_cache, storage)
       IN dirty_call("collect_dirty_blocks", NoLoc, storage, r.ret, r.cache,
                     last.collected \cup r.ret)

dirty_get_dirty_count(storage) ==
    /\ \A i \in DOMAIN m_cache : m_cache[i].m_num_dirty <= MaxDrift + 1
    /\ LET r == get_dirty_count(m_cache, storage)
       IN dirty_call("get_dirty_count", NoLoc, storage, r.ret, r.cache, last.collected)

NextDirty ==
    \/ \E loc \in DirtyLocs : dirty_insert_write(loc)
    \/ \E loc \in DirtyLocs : dirty_insert_read(loc)
    \/ \E loc \in DirtyLocs : dirty_mark_clean(loc)
    \/ \E loc \in DirtyLocs : dirty_get(loc)
    \/ \E storage \in StorageIds : dirty_collect_dirty_blocks(storage)
    \/ \E storage \in StorageIds : dirty_get_dirty_count(storage)

SpecDirty == InitDirty /\ [][NextDirty]_vars

C32_DirtyCountPure ==
    [][last'.call = "get_dirty_count"
        => /\ last'.ret = Cardinality(dirty_of(m_cache, last'.storage))
           /\ m_cache' = m_cache]_vars

\* the entries of a partition whose dirty flag is not set
clean_count(p) == Cardinality({l \in DOMAIN p.m_entries : ~p.m_entries[l].dirty})

\* C33: in every partition m_num_dirty is the number of dirty entries,
\* m_num_clean the number of clean ones, and neither has gone below zero
C33_CountersMatch ==
    \A i \in DOMAIN m_cache :
        /\ m_cache[i].m_num_dirty = dirty_count(m_cache[i])
        /\ m_cache[i].m_num_clean = clean_count(m_cache[i])
        /\ m_cache[i].m_num_dirty + m_cache[i].m_num_clean
              = Cardinality(DOMAIN m_cache[i].m_entries)
        /\ m_cache[i].m_num_dirty >= 0
        /\ m_cache[i].m_num_clean >= 0

\* the locations of a list
list_keys(list) == {list[k] : k \in DOMAIN list}

\* C34: every cached location is once in the list its entry's state names
\* and in no other list, the lists hold cached locations only, and the
\* entries in m_write_lru are the dirty ones
C34_ShardStructure ==
    \A i \in DOMAIN m_cache :
        LET p == m_cache[i]
            lists == <<p.m_write_lru, p.m_read_lru1, p.m_read_lru2>>
        IN /\ \A l \in DOMAIN p.m_entries :
                 /\ Cardinality({k \in DOMAIN lru_list(p, p.m_entries[l].state) :
                                    lru_list(p, p.m_entries[l].state)[k] = l}) = 1
                 /\ Cardinality({n \in 1..3 : l \in list_keys(lists[n])}) = 1
                 /\ l \in list_keys(p.m_write_lru) <=> p.m_entries[l].dirty
           /\ \A n \in 1..3 : list_keys(lists[n]) \subseteq DOMAIN p.m_entries

\* an allocation made while the pool's usage is at least m_max_use hands out
\* no buffer, leaves the usage as it is and latches m_exceeded_max_size; made
\* by async_write, it reports exceeded and queues the observer it was given
C35_FullAllocation ==
    [][/\ m_buffer_pool.m_size >= m_buffer_pool.m_max_use
          => /\ \A ok \in BOOLEAN :
                   pool_allocate_buffer(ok)
                      => /\ ~last'.ret
                         /\ held' = held
                         /\ m_buffer_pool'.m_size = m_buffer_pool.m_size
                         /\ m_buffer_pool'.m_exceeded_max_size
                         /\ m_buffer_pool'.m_observers = m_buffer_pool.m_observers
             /\ \A o \in Observers \cup {NoObserver}, ok \in BOOLEAN :
                   pool_async_write(o, ok)
                      => /\ last'.ret
                         /\ held' = held
                         /\ m_buffer_pool'.m_size = m_buffer_pool.m_size
                         /\ m_buffer_pool'.m_exceeded_max_size
                         /\ m_buffer_pool'.m_observers =
                               IF o = NoObserver THEN m_buffer_pool.m_observers
                               ELSE Append(m_buffer_pool.m_observers, o)]_vars

\* the usage of the pool stays within 0..m_max_use
C35_WithinCapacity ==
    0 <= m_buffer_pool.m_size /\ m_buffer_pool.m_size <= m_buffer_pool.m_max_use

\* C35 as stated: the usage of the pool stays within 0..m_max_use, across
\* set_settings too, and an allocation at usage = m_max_use fails as
\* C35_FullAllocation says
C35_PoolCapacity == []C35_WithinCapacity /\ C35_FullAllocation

\* the usage is never negative, and while it is above m_max_use (after a
\* set_settings that lowered the limit) m_exceeded_max_size is latched
C35_LatchedAboveCapacity ==
    /\ 0 <= m_buffer_pool.m_size
    /\ m_buffer_pool.m_size > m_buffer_pool.m_max_use
          => m_buffer_pool.m_exceeded_max_size

\* C35, amended: the usage is never negative; no step that raises the usage
\* takes it above m_max_use; while the usage is above m_max_use the pool is
\* latched exceeded; and an allocation at usage >= m_max_use fails as
\* C35_FullAllocation says
C35_Amended ==
    /\ []C35_LatchedAboveCapacity
    /\ [][m_buffer_pool'.m_size > m_buffer_pool.m_size
            => m_buffer_pool'.m_size <= m_buffer_pool'.m_max_use]_vars
    /\ C35_FullAllocation

\* async_write asked for a buffer while the usage was above m_max_use, and
\* got none
C35_Witness ==
    /\ last.call = "async_write"
    /\ last.size_before > m_buffer_pool.m_max_use
    /\ m_buffer_pool.m_size = last.size_before
    /\ m_buffer_pool.m_exceeded_max_size

(***************************************************************************)
(* The capacity and the watermarks, in buffers of 16 KiB                   *)
(***************************************************************************)
\* MAX_BUFFER_POOL_SIZE / 1024 and DEFAULT_BLOCK_SIZE / 1024, in KiB
MAX_BUFFER_POOL_SIZE_KB == 131072
DEFAULT_BLOCK_SIZE_KB == 16

\* the least number of KiB whose number of bytes does not fit an int
IntOverflowKB == 2 ^ 21

\* the value of an int that wrapped around, in KiB
wrap_kb(kb) == ((kb + IntOverflowKB) % (2 * IntOverflowKB)) - IntOverflowKB

\* the division of ints, which truncates towards zero
int_div(a, b) == IF a >= 0 THEN a \div b ELSE 0 - ((0 - a) \div b)

\* buffer_pool's constructor: BUFFER_COUNT, LOW_WATERMARK, HIGH_WATERMARK
constructed_pool ==
    [m_size |-> 0,
     m_max_use |-> MAX_BUFFER_POOL_SIZE_KB \div DEFAULT_BLOCK_SIZE_KB,
     m_low_watermark |-> (MAX_BUFFER_POOL_SIZE_KB \div DEFAULT_BLOCK_SIZE_KB) \div 2,
     m_high_watermark |-> ((MAX_BUFFER_POOL_SIZE_KB \div DEFAULT_BLOCK_SIZE_KB) \div 8) * 7,
     m_exceeded_max_size |-> FALSE, m_observers |-> <<>>]

\* set_settings, from the setting to new_max_use: the values the int
\* (cache_size_kb * 1024) / DEFAULT_BLOCK_SIZE can take, at least 16.  The
\* product overflows from 2 GiB on, which is undefined: it may wrap around
\* or be carried out in a wider register
new_max_use(cache_size_kb) ==
    LET kb == IF cache_size_kb = 0 THEN MAX_BUFFER_POOL_SIZE_KB ELSE cache_size_kb
        counts == IF kb < IntOverflowKB
                  THEN {int_div(kb, DEFAULT_BLOCK_SIZE_KB)}
                  ELSE {int_div(wrap_kb(kb), DEFAULT_BLOCK_SIZE_KB),
                        int_div(kb, DEFAULT_BLOCK_SIZE_KB)}
    IN {IF n < 16 THEN 16 ELSE n : n \in counts}

\* the cache_size settings tried, in KiB: none, the sizes up to 25 buffers,
\* the default, and the sizes around 2 GiB
SettingsKB ==
    (0..400) \cup {MAX_BUFFER_POOL_SIZE_KB, IntOverflowKB - 1, IntOverflowKB,
                   IntOverflowKB + 272}

InitSettings ==
    /\ threads = [t \in Threads |-> Idle]
    /\ m_buffer_pool = constructed_pool
    /\ m_cache = unified_cache(PartitionEntries)
    /\ partition_of = [l \in Locs |-> 0]
    /\ device = [u \in 0..(PieceUnits - 1) |-> Blank]
    /\ parse_ok = TRUE
    /\ storages_ = {}
    /\ free_slots_ = <<>>
    /\ jobs = <<>>
    /\ ioc_ = <<>>
    /\ held = 0
    /\ waiting = [o \in Observers |-> FALSE]
    /\ last = [call |-> "buffer_pool", cache_size_kb |-> MAX_BUFFER_POOL_SIZE_KB]

\* buffer_pool::set_settings with settings_pack::cache_size = cache_size_kb
pool_settings_kb(cache_size_kb) ==
    /\ \E n \in new_max_use(cache_size_kb) :
          m_buffer_pool' = set_settings(m_buffer_pool, n)
    /\ last' = [call |-> "set_settings",
                cache_size_kb |-> IF cache_size_kb = 0 THEN MAX_BUFFER_POOL_SIZE_KB
                                  ELSE cache_size_kb]
    /\ UNCHANGED <<m_cache, partition_of, threads, device, parse_ok, storages_,
                   free_slots_, jobs, ioc_, held, waiting>>

NextSettings == \E cache_size_kb \in SettingsKB : pool_settings_kb(cache_size_kb)

SpecSettings == InitSettings /\ [][NextSettings]_vars

\* C36: for the pool size configured last (at construction or by
\* set_settings; no setting means the default size) m_max_use is the number
\* of bytes div 16384, m_low_watermark is m_max_use div 2, m_high_watermark
\* is (m_max_use * 7) div 8, and m_low_watermark < m_high_watermark <= m_max_use
C36_WatermarkArithmetic ==
    /\ m_buffer_pool.m_max_use = last.cache_size_kb \div DEFAULT_BLOCK_SIZE_KB
    /\ m_buffer_pool.m_low_watermark = m_buffer_pool.m_max_use \div 2
    /\ m_buffer_pool.m_high_watermark = (m_buffer_pool.m_max_use * 7) \div 8
    /\ m_buffer_pool.m_low_watermark < m_buffer_pool.m_high_watermark
    /\ m_buffer_pool.m_high_watermark <= m_buffer_pool.m_max_use

\* what holds of every size: the capacity is at least 16, the low watermark
\* is half of it, the high watermark is the capacity less an eighth, and
\* they are in order
C36_WatermarkOrder ==
    /\ m_buffer_pool.m_max_use >= 16
    /\ m_buffer_pool.m_low_watermark = m_buffer_pool.m_max_use \div 2
    /\ last.call = "set_settings"
          => m_buffer_pool.m_high_watermark
                = m_buffer_pool.m_max_use - (m_buffer_pool.m_max_use \div 8)
    /\ m_buffer_pool.m_low_watermark < m_buffer_pool.m_high_watermark
    /\ m_buffer_pool.m_high_watermark <= m_buffer_pool.m_max_use
    /\ last.cache_size_kb = MAX_BUFFER_POOL_SIZE_KB => m_buffer_pool = constructed_pool

(***************************************************************************)
(* The registry of storages: storages_ and free_slots_, which no mutex     *)
(* guards.  Here storages_ keeps, for every slot id in the map, the        *)
(* partition_storage registered under it (storages are numbered as they    *)
(* are made) or null; jobs are the tasks posted to the pools, of which     *)
(* only the lookup storages_[storage] is kept; last.holders are the        *)
(* storage_holders that new_torrent returned and that were not removed     *)
(***************************************************************************)
\* the unique_ptr that std::map::operator[] inserts for a key it does not hold
Null == [made |-> 0]

\* a pointer into a map node that another thread was changing
Dangling == [made |-> 0 - 1]

InitRegistry ==
    /\ threads = [t \in Threads |-> Idle]
    /\ m_buffer_pool = buffer_pool
    /\ m_cache = unified_cache(PartitionEntries)
    /\ partition_of = [l \in Locs |-> 0]
    /\ device = [u \in 0..(PieceUnits - 1) |-> Blank]
    /\ parse_ok = TRUE
    /\ storages_ = <<>>
    /\ free_slots_ = <<>>
    /\ jobs = <<>>
    /\ ioc_ = <<>>
    /\ held = 0
    /\ waiting = [o \in Observers |-> FALSE]
    /\ last = [call |-> "none", idx |-> 0, made |-> 0, holders |-> {},
               raced |-> FALSE, inserted |-> FALSE, found |-> Null, storage |-> Null]

\* new_torrent up to the choice of idx: storages_.size(), or the front of
\* free_slots_, which is popped
new_torrent_idx ==
    /\ threads["caller"] = Idle
    /\ last.made < MaxOps
    /\ LET idx == IF free_slots_ # <<>> THEN Head(free_slots_)
                  ELSE Cardinality(DOMAIN storages_)
       IN threads' = [threads EXCEPT !["caller"] =
                         [pc |-> "new_torrent", call |-> "new_torrent", holds |-> {},
                          idx |-> idx]]
    /\ free_slots_' = IF free_slots_ # <<>> THEN Tail(free_slots_) ELSE free_slots_
    /\ UNCHANGED <<m_buffer_pool, m_cache, partition_of, device, parse_ok, storages_,
                   jobs, ioc_, held, waiting, last>>

\* storages_.emplace(idx, std::move(storage)), which leaves a key that is in
\* the map as it is, and the storage_holder returned
new_torrent_emplace ==
    /\ threads["caller"].pc = "new_torrent"
    /\ LET idx == threads["caller"].idx
           storage == [made |-> last.made + 1]
       IN /\ storages_' = IF idx \in DOMAIN storages_ THEN storages_
                          ELSE (idx :> storage) @@ storages_
          /\ last' = [last EXCEPT !.call = "new_torrent", !.idx = idx, !.made = @ + 1,
                         !.storage = storage,
                         !.holders = @ \cup {[idx |-> idx, storage |-> storage]}]
    /\ threads' = [threads EXCEPT !["caller"] = Idle]
    /\ UNCHANGED <<m_buffer_pool, m_cache, partition_of, device, parse_ok, free_slots_,
                   jobs, ioc_, held, waiting>>

\* remove_torrent of a holder: storages_.erase(idx)
remove_torrent_erase(h) ==
    /\ threads["caller"] = Idle
    /\ h \in last.holders
    /\ storages_' = [i \in (DOMAIN storages_) \ {h.idx} |-> storages_[i]]
    /\ threads' = [threads EXCEPT !["caller"] =
                      [pc |-> "remove_torrent", call |-> "remove_torrent", holds |-> {},
                       idx |-> h.idx]]
    /\ last' = [last EXCEPT !.call = "remove_torrent", !.idx = h.idx,
                   !.holders = @ \ {h}]
    /\ UNCHANGED <<m_buffer_pool, m_cache, partition_of, device, parse_ok, free_slots_,
                   jobs, ioc_, held, waiting>>

\* free_slots_.push_back(idx)
remove_torrent_push_back ==
    /\ threads["caller"].pc = "remove_torrent"
    /\ free_slots_' = Append(free_slots_, threads["caller"].idx)
    /\ threads' = [threads EXCEPT !["caller"] = Idle]
    /\ UNCHANGED <<m_buffer_pool, m_cache, partition_of, device, parse_ok, storages_,
                   jobs, ioc_, held, waiting, last>>

\* async_write / async_hash / async_read on a holder: the task is posted with
\* the slot id
post_task(h) ==
    /\ threads["caller"] = Idle
    /\ h \in last.holders
    /\ Len(jobs) < MaxOps
    /\ jobs' = Append(jobs, [storage |-> h.idx, made_for |-> h.storage, pc |-> "queued"])
    /\ UNCHANGED <<m_buffer_pool, m_cache, partition_of, threads, device, parse_ok,
                   storages_, free_slots_, ioc_, held, waiting, last>>

\* storages_[storage] in a pool thread: operator[] returns the pointer under
\* the key and inserts a null one when the key is absent.  While the caller
\* is inside new_torrent or remove_torrent the two threads use the map at
\* once, which is a data race: the lookup may see the map before or after
\* the change, or follow a node that is being unlinked
storages_lookup(id, outcome) ==
    /\ id \in DOMAIN jobs
    /\ jobs[id].pc = "queued"
    /\ LET idx == jobs[id].storage
           raced == threads["caller"].pc # "idle"
           inserted == outcome = "map" /\ idx \notin DOMAIN storages_
           found == IF outcome = "dangling" THEN Dangling
                    ELSE IF idx \in DOMAIN storages_ THEN storages_[idx] ELSE Null
       IN /\ outcome = "dangling" => raced
          /\ storages_' = IF inserted THEN (idx :> Null) @@ storages_ ELSE storages_
          /\ jobs' = [jobs EXCEPT ![id].pc = "done"]
          /\ last' = [last EXCEPT !.call = "lookup", !.idx = idx, !.raced = raced,
                         !.inserted = inserted, !.found = found,
                         !.storage = jobs[id].made_for]
    /\ UNCHANGED <<m_buffer_pool, m_cache, partition_of, threads, device, parse_ok,
                   free_slots_, ioc_, held, waiting>>

NextRegistry ==
    \/ new_torrent_idx
    \/ new_torrent_emplace
    \/ \E h \in last.holders : remove_torrent_erase(h)
    \/ remove_torrent_push_back
    \/ \E h \in last.holders : post_task(h)
    \/ \E id \in 1..MaxOps, outcome \in {"map", "dangling"} : storages_lookup(id, outcome)

SpecRegistry == InitRegistry /\ [][NextRegistry]_vars

\* C37: a lookup of a storage by a pool thread is not made while the caller
\* is inside new_torrent or remove_torrent, inserts nothing into the map,
\* and finds the storage the task was posted for
C37_RegistryExclusion ==
    last.call = "lookup"
        => /\ ~last.raced
           /\ ~last.inserted
           /\ last.found = last.storage

\* the slot ids in free_slots_
free_ids == {free_slots_[k] : k \in DOMAIN free_slots_}

holds_buffer(j) ==
    CASE j.op = "read" -> j.pool = "read" /\ j.pc # "done"
      [] j.op = "write" -> j.path = "buffered" /\ j.pc \notin {"posted", "done"}
      [] j.op = "hash" -> j.path = "hash" /\ j.pc \notin {"posted", "done"}
      [] OTHER -> FALSE

\* C39: the usage of the pool is the number of jobs that own a buffer plus
\* the number of holders the caller has been handed and not dropped; it is
\* never negative, and it is 0 when every job is done and every holder dropped
C39_NoLeakNoDoubleFree ==
    /\ m_buffer_pool.m_size
          = Cardinality({id \in DOMAIN jobs : holds_buffer(jobs[id])}) + held
    /\ m_buffer_pool.m_size >= 0
    /\ ((\A id \in DOMAIN jobs : jobs[id].pc = "done") /\ held = 0)
          => m_buffer_pool.m_size = 0

\* a read that missed, a buffered write and a hash have completed, the
\* caller has dropped the holder of the read and the pool is empty again
C39_Witness ==
    /\ \A id \in DOMAIN jobs : jobs[id].pc = "done"
    /\ \E id \in DOMAIN jobs : jobs[id].path = "miss"
    /\ \E id \in DOMAIN jobs : jobs[id].path = "buffered"
    /\ \E id \in DOMAIN jobs : jobs[id].path = "hash"
    /\ held = 0
    /\ m_buffer_pool.m_size = 0

\* C40: the bytes of a cache entry are copied out only while the entry is
\* protected: when the callback of get2 copies, no entry it was handed a
\* pointer to has been freed, and none has been rewritten since its lookup
C40_ReadWhileProtected ==
    last.call = "get2" =>
        \A i \in 1..2 :
            last.part[i] # <<>> => ~last.freed[i] /\ last.part[i] = last.seen[i]

=============================================================================
